---- MODULE Spec2Model ----
(***************************************************************************)
(* Model of the IC Autopilot workflow (fund-multi-agent):                  *)
(*   backend/main.py            execute_workflow (the background task)     *)
(*   worker/workflow.py         ICWorkflow (the ten-stage orchestrator)    *)
(*   worker/executors/*.py      the stage executors                        *)
(*   backend/services/*.py      EventBus, RunStore                         *)
(* One asyncio event loop runs the top-level task and, during stage 5,     *)
(* one task per candidate; a step of the model is what one task does       *)
(* between two points where the loop can switch to another task.           *)
(***************************************************************************)
EXTENDS Integers, Sequences, FiniteSets, TLC

\* ------------------------------------------------------------------ bounds
\* number of funds of the universe (one FundFeatures artifact per fund)
NumFunds == 1
\* scores are round(total_score, 4); the model ranges them over 0..MaxScore
MaxScore == 2

\* how many times an executor is called on its own, one call after the other
MaxCalls == 2

\* how many times the event loop turns to a task in the fan-out followed
\* step by step
MaxResumes == 4

\* ------------------------------------------------------------ program data
\* candidates.py: configs, in list order; dict iteration follows it
CandOrder == <<"A", "B", "C">>
CandIds == {"A", "B", "C"}

\* schemas/runs.py DEFAULT_STAGES, in stage_order
StageIds ==
  <<"load_mandate", "build_universe", "compute_features", "generate_candidates",
    "verify_candidates", "repair_loop", "rank_select", "rebalance_plan",
    "write_memo", "audit_finalize">>
NumStages == Len(StageIds)
Stages == 1..NumStages
VerifyStage == 5
RepairStage == 6
SelectStage == 7

\* workflow.py _repair_loop: max_attempts=3
MaxAttempts == 3

\* compliance.py: the rule categories of the eight rules
Categories == {"concentration", "allocation", "diversification", "esg"}
\* compliance.py:159 the categories whose failure is critical
CriticalCategories == {"concentration", "regulatory"}

VARIABLES
  world,              \* the environment of the run (see Worlds)
  pc,                 \* position of the top-level task (execute_workflow / execute)
  cur,                \* index of the stage execute() is at (0 before stage 1)
  runExists,          \* whether the Run Store has a row for run_id
  runStatus,          \* runs.status of that row
  runError,           \* runs.error_message / error_stage of that row
  terminalWrites,     \* how many times a terminal status was written
  candidateRows,      \* the run's rows of the candidates table, per candidate
  made,               \* the executor calls made one by one, with what they returned
  rng,                \* the generator of the random module, shared by every task
  scenario_results,   \* red team: the draws behind each candidate's scenario results
  stageStatus,        \* stages.status, per stage
  stageError,         \* stages.error_message, per stage
  completions,        \* the stages in the order their completed_at was written
  sequence,           \* ICWorkflow.sequence
  busCounter,         \* EventBus._sequence_counters[run_id]
  stream,             \* the run's Redis stream, in XADD order
  busFailed,          \* whether a publish of execute_workflow has raised
  exc,                \* the exception propagating in the top-level task
  raised,             \* the exception the failing stage's executor_fn raised
  artifacts,          \* blackboard: mandate, universe, features, plan, memo, ...
  candidates,         \* blackboard: self.candidates
  compliance_reports, \* blackboard: self.compliance_reports
  redteam_reports,    \* blackboard: self.redteam_reports
  decision,           \* blackboard: self.decision
  store,              \* the artifacts save_artifact has put in the artifact store
  blobs,              \* the artifact store's container: the blob at each path
  audit_hashes,       \* the artifact_hashes of the run's AuditEvent
  unit,               \* stage 5: position of each candidate's verification task
  firstRaised,        \* stage 5: the first task exception gather() saw
  rep                 \* stage 6: the repair loop's locals

vars ==
  <<world, pc, cur, runExists, runStatus, runError, terminalWrites, candidateRows,
    made, rng, scenario_results, stageStatus,
    stageError, completions, sequence, busCounter, stream, busFailed, exc, raised,
    artifacts, candidates, compliance_reports, redteam_reports, decision,
    store, blobs, audit_hashes, unit, firstRaised, rep>>

runVars ==
  <<world, runExists, runStatus, runError, terminalWrites, candidateRows, made,
    rng, scenario_results>>
stageVars == <<stageStatus, stageError, completions>>
busVars == <<sequence, busCounter, stream, busFailed>>
boardVars ==
  <<artifacts, candidates, compliance_reports, redteam_reports, decision,
    store, blobs, audit_hashes>>
fanVars == <<unit, firstRaised>>

\* ------------------------------------------------------------- exceptions
NoExc == [type |-> "none", at |-> 0, cand |-> "none"]
ExecutorError(s, c) == [type |-> "ExecutorError", at |-> s, cand |-> c]
BusError(s) == [type |-> "BusError", at |-> s, cand |-> "none"]
RunNotFound == [type |-> "ValueError", at |-> 0, cand |-> "none"]

\* ----------------------------------------------------------------- events
\* an event before emission: schemas/events.py WorkflowEvent, sequence unset
Ev(kind, level, stage, cand) ==
  [kind |-> kind, level |-> level, stage |-> stage, cand |-> cand]

Bus == [stream |-> stream, counter |-> busCounter, sequence |-> sequence]

\* EventBus._get_next_sequence
GetNextSequence(counter) == counter + 1

\* EventBus.publish: an event whose sequence is still 0 takes the bus's own
\* per-run counter; the event is appended to the stream (XADD)
Stamped(e, s) ==
  [kind |-> e.kind, level |-> e.level, stage |-> e.stage, cand |-> e.cand, seq |-> s]

Publish(b, e, seq) ==
  LET s == IF seq = 0 THEN GetNextSequence(b.counter) ELSE seq
  IN [stream |-> Append(b.stream, Stamped(e, s)),
      counter |-> IF seq = 0 THEN GetNextSequence(b.counter) ELSE b.counter,
      sequence |-> b.sequence]

\* ICWorkflow.emit: self.sequence += 1, then publish with that sequence
Emit(b, e) ==
  Publish([b EXCEPT !.sequence = b.sequence + 1], e, b.sequence + 1)

\* the emits of a list of events, one after the other: the i-th takes the
\* i-th next value of self.sequence (never 0, so the bus's counter is not used)
EmitAll(b, es) ==
  [stream |-> b.stream \o [i \in 1..Len(es) |-> Stamped(es[i], b.sequence + i)],
   counter |-> b.counter,
   sequence |-> b.sequence + Len(es)]

SetBus(b) ==
  /\ stream' = b.stream
  /\ busCounter' = b.counter
  /\ sequence' = b.sequence
  /\ UNCHANGED busFailed

\* BaseExecutor.emit_progress / save_artifact, as the events they emit
Progress(stage) == Ev("progress_update", "info", stage, "none")
Persisted(stage) == Ev("artifact_persisted", "info", stage, "none")

RECURSIVE Repeat(_, _)
Repeat(es, n) == IF n = 0 THEN <<>> ELSE es \o Repeat(es, n - 1)

\* ------------------------------------------------------------- run store
\* RunStore.update_run_status: UPDATE ... WHERE run_id (no row: no effect);
\* error_message and error_stage are written only when they are given
UpdateRunStatus(status, error_message, error_stage) ==
  IF runExists
  THEN /\ runStatus' = status
       /\ runError' =
            [message |-> IF error_message = NoExc THEN runError.message
                         ELSE error_message,
             stage |-> IF error_stage = "none" THEN runError.stage ELSE error_stage]
       /\ terminalWrites' =
            IF status \in {"completed", "failed", "cancelled"}
            THEN terminalWrites + 1 ELSE terminalWrites
       /\ UNCHANGED <<world, runExists, candidateRows, made, rng, scenario_results>>
  ELSE UNCHANGED runVars

\* seeded fault: the UPDATE leaves out the stage_id of its WHERE clause and
\* writes the status to every stage of the run
UpdateStageAllStages(s, status, err) ==
  IF runExists
  THEN /\ stageStatus' = [t \in Stages |-> status]
       /\ stageError' = [stageError EXCEPT ![s] = err]
       /\ completions' = IF status = "running" THEN completions
                         ELSE Append(completions, s)
  ELSE UNCHANGED stageVars

\* RunStore.update_stage; completed_at is written for every status but running
UpdateStage(s, status, err) ==
  IF runExists
  THEN /\ stageStatus' = [stageStatus EXCEPT ![s] = status]
       /\ stageError' = [stageError EXCEPT ![s] = err]
       /\ completions' = IF status = "running" THEN completions
                         ELSE Append(completions, s)
  ELSE UNCHANGED stageVars

\* ------------------------------------------------------------------- init
\* the generator before any task has seeded it
NoRng == [seed |-> [base |-> 0, cand |-> "none"], drawn |-> 0]

\* schemas/runs.py:64-88 a CandidateProgress with its defaults, as create_run
\* inserts it (run_store.py:152-157); the flags are None, true or false
CandidateProgress(c) ==
  [candidate_id |-> c, compliance_passed |-> "none", redteam_passed |-> "none",
   repair_attempts |-> 0, is_repaired |-> FALSE]

\* schemas/runs.py:182-186 the rows of a new run
NewCandidateRows == [c \in CandIds |-> CandidateProgress(c)]

NoDecision ==
  [selected |-> "none", rationale |-> "none", scores |-> <<>>, rejected |-> {}]
\* the repair loop between two candidates: idx is the position in the dict
NoRep(idx) ==
  [idx |-> idx, attempt |-> 0, cand |-> <<>>, comp |-> <<>>, red |-> <<>>]

\* The environment of a run: the order in which the event loop resumes the
\* verification tasks of stage 5 (any order, or each task to its end in the
\* order gather() was given them), and the candidate whose checks can give
\* every verdict each time they run (the focus). With a focus the other
\* candidates pass every check or fail the ESG rule, for which no repair
\* exists; without one every check passes. Every task order is explored
\* without a focus and every candidate is the focus with the tasks run in
\* order; the product of all orders with all verdicts of all candidates is
\* beyond what TLC enumerates.
Worlds ==
  {[order |-> "any", focus |-> "none"]}
  \cup {[order |-> "fifo", focus |-> c] : c \in CandIds}

\* the background task is queued for run_id; get_run finds the run's row, or
\* finds none (workflow.py:195)
Init ==
  /\ world \in Worlds
  /\ pc = "queued"
  /\ cur = 0
  /\ runExists \in BOOLEAN
  /\ runStatus = IF runExists THEN "pending" ELSE "absent"
  /\ runError = [message |-> NoExc, stage |-> "none"]
  /\ terminalWrites = 0
  /\ candidateRows = IF runExists THEN NewCandidateRows ELSE <<>>
  /\ made = <<>>
  /\ rng = NoRng
  /\ scenario_results = [c \in CandIds |-> <<>>]
  /\ stageStatus = [s \in Stages |-> "pending"]
  /\ stageError = [s \in Stages |-> NoExc]
  /\ completions = <<>>
  /\ sequence = 0
  /\ busCounter = 0
  /\ stream = <<>>
  /\ busFailed = FALSE
  /\ exc = NoExc
  /\ raised = NoExc
  /\ artifacts = {}
  /\ candidates = <<>>
  /\ compliance_reports = <<>>
  /\ redteam_reports = <<>>
  /\ decision = NoDecision
  /\ store = {}
  /\ blobs = <<>>
  /\ audit_hashes = {}
  /\ unit = [c \in CandIds |-> "idle"]
  /\ firstRaised = NoExc
  /\ rep = NoRep(1)

\* ------------------------------------------------------ execute_workflow
\* main.py:315-322 update_run_status(RUNNING), publish RUN_STARTED
StartRun ==
  /\ pc = "queued"
  /\ UpdateRunStatus("running", NoExc, "none")
  /\ SetBus(Publish(Bus, Ev("run_started", "info", "none", "none"), 0))
  /\ pc' = "execute"
  /\ UNCHANGED <<cur, stageVars, exc, raised, boardVars, fanVars, rep>>

\* execute() going on to stage 1 without looking at what get_run returned
ExecuteEnterUnchecked ==
  /\ pc = "execute"
  /\ cur' = 1
  /\ pc' = "stage_start"
  /\ UNCHANGED <<runVars, stageVars, busVars, exc, raised, boardVars, fanVars, rep>>

\* workflow.py:194-196 get_run; a missing run raises ValueError
ExecuteEnter ==
  /\ pc = "execute"
  /\ IF runExists
     THEN /\ cur' = 1
          /\ pc' = "stage_start"
          /\ exc' = exc
     ELSE /\ exc' = RunNotFound
          /\ pc' = "raised"
          /\ cur' = cur
  /\ UNCHANGED <<runVars, stageVars, busVars, raised, boardVars, fanVars, rep>>

\* workflow.py:131-143 execute_stage up to the try: stage RUNNING, STAGE_STARTED
StageStart ==
  /\ pc = "stage_start"
  /\ UpdateStage(cur, "running", NoExc)
  /\ SetBus(Emit(Bus, Ev("stage_started", "info", StageIds[cur], "none")))
  /\ pc' = "stage_exec"
  /\ UNCHANGED <<cur, runVars, exc, raised, boardVars, fanVars, rep>>

\* seeded fault: execute() leaves out the stage after the one that succeeded
StageSucceedSkipping ==
  /\ pc = "stage_ok"
  /\ UpdateStage(cur, "succeeded", NoExc)
  /\ SetBus(Emit(Bus, Ev("stage_completed", "info", StageIds[cur], "none")))
  /\ IF cur < NumStages
     THEN cur' = (IF cur + 2 <= NumStages THEN cur + 2 ELSE cur + 1) /\ pc' = "stage_start"
     ELSE cur' = cur /\ pc' = "returned"
  /\ UNCHANGED <<runVars, exc, raised, boardVars, fanVars, rep>>

\* workflow.py:148-165 the executor returned: stage SUCCEEDED, STAGE_COMPLETED;
\* execute() goes on to the next stage, or returns after the tenth
StageSucceed ==
  /\ pc = "stage_ok"
  /\ UpdateStage(cur, "succeeded", NoExc)
  /\ SetBus(Emit(Bus, Ev("stage_completed", "info", StageIds[cur], "none")))
  /\ IF cur < NumStages
     THEN cur' = cur + 1 /\ pc' = "stage_start"
     ELSE cur' = cur /\ pc' = "returned"
  /\ UNCHANGED <<runVars, exc, raised, boardVars, fanVars, rep>>

\* seeded fault: the handler records the failure and swallows the exception,
\* so that execute() goes on with the next stage
StageFailSwallowed ==
  /\ pc = "stage_err"
  /\ UpdateStage(cur, "failed", raised)
  /\ SetBus(Emit(Bus, Ev("stage_failed", "error", StageIds[cur], "none")))
  /\ exc' = exc
  /\ IF cur < NumStages
     THEN cur' = cur + 1 /\ pc' = "stage_start"
     ELSE cur' = cur /\ pc' = "returned"
  /\ UNCHANGED <<runVars, raised, boardVars, fanVars, rep>>

\* workflow.py:167-187 the executor raised: stage FAILED with str(e),
\* STAGE_FAILED at error level, then a bare raise out of execute()
StageFail ==
  /\ pc = "stage_err"
  /\ UpdateStage(cur, "failed", raised)
  /\ SetBus(Emit(Bus, Ev("stage_failed", "error", StageIds[cur], "none")))
  /\ exc' = raised
  /\ pc' = "raised"
  /\ UNCHANGED <<cur, runVars, raised, boardVars, fanVars, rep>>

\* ------------------------------------------------- the sequential stages
\* an artifact held in one of the blackboard's single slots
Art(slot, cand, n) == [slot |-> slot, cand |-> cand, n |-> n]
\* a PortfolioCandidate: version is ArtifactBase.version; gen tells the
\* artifact apart from the ones it was repaired from (artifact_id, hash)
Cand(c, version, gen) == [candidate_id |-> c, version |-> version, gen |-> gen]

SeqStages == {1, 2, 3, 4, 8, 9, 10}

\* ------------------------------------------------------ the artifact store
\* schemas/artifacts.py the artifact_type of the artifacts of a slot
ArtifactType(slot) ==
  CASE slot = "mandate" -> "mandate_dsl"
    [] slot = "features" -> "fund_features"
    [] slot = "candidate" -> "portfolio_candidate"
    [] slot = "memo" -> "ic_memo"
    [] slot = "audit" -> "audit_event"
    [] OTHER -> slot

\* schemas/artifacts.py:29 ArtifactBase.version: the default, which no
\* executor changes
Version(a) == 1

\* artifact_store.py:71-77 the blob paths of an artifact of the run
ArtifactPath(artifact_type, version) ==
  [artifact_type |-> artifact_type, file |-> "version", version |-> version]
LatestPath(artifact_type) ==
  [artifact_type |-> artifact_type, file |-> "latest", version |-> 0]

\* upload_blob(..., overwrite=True)
UploadBlob(b, path, a) == (path :> a) @@ b

\* artifact_store.py:79-126 save, run from its first line to its return
Save(b, a) ==
  UploadBlob(UploadBlob(b, ArtifactPath(ArtifactType(a.slot), Version(a)), a),
             LatestPath(ArtifactType(a.slot)), a)

\* the saves of a sequence of artifacts, one after the other
RECURSIVE SaveAll(_, _)
SaveAll(b, as) == IF as = <<>> THEN b ELSE SaveAll(Save(b, Head(as)), Tail(as))

\* artifact_store.py:128-171 load(run_id, artifact_type, version): the blob
\* at the version's path, or None
Load(b, artifact_type, version) ==
  IF ArtifactPath(artifact_type, version) \in DOMAIN b
  THEN b[ArtifactPath(artifact_type, version)] ELSE Art("none", "none", 0)

\* the events each executor's execute() emits, in order, followed by the
\* events the workflow's stage method emits after it
ExecutorEvents(s) ==
  LET id == StageIds[s] IN
  CASE s = 1 -> <<Progress(id), Persisted(id)>>
    [] s = 2 -> <<Progress(id), Progress(id), Progress(id), Progress(id), Persisted(id)>>
    [] s = 3 -> <<Progress(id)>>
                \o (IF NumFunds > 0 THEN <<Progress(id)>> ELSE <<>>)
                \o <<Progress(id)>> \o Repeat(<<Persisted(id)>>, NumFunds)
    [] s = 4 -> <<Progress(id)>> \o Repeat(<<Progress(id), Persisted(id)>>, Len(CandOrder))
                \o [i \in 1..Len(CandOrder) |->
                      Ev("candidate_created", "info", "none", CandOrder[i])]
    [] s = 8 -> <<Progress(id), Progress(id), Persisted(id)>>
    [] s = 9 -> <<Progress(id), Progress(id), Persisted(id), Persisted(id)>>
    [] s = 10 -> <<Progress(id), Progress(id), Persisted(id),
                   Ev("artifact_persisted", "info", "none", "none")>>

\* seeded fault: stages 8 and 9 take the first candidate of the blackboard
SelectedFirst == candidates[CandOrder[1]]

\* the candidate stages 8 and 9 work on: self.candidates.get(selected)
Selected == candidates[decision.selected]

\* what the stage method stores in the blackboard
StageArtifacts(s) ==
  CASE s = 1 -> {Art("mandate", "none", 0)}
    [] s = 2 -> {Art("universe", "none", 0)}
    [] s = 3 -> {Art("features", "none", f) : f \in 1..NumFunds}
    [] s = 4 -> {}
    [] s = 8 -> {Art("rebalance_plan", Selected.candidate_id, Selected.gen)}
    [] s = 9 -> {Art("memo", Selected.candidate_id, Selected.gen),
                 Art("risk_appendix", Selected.candidate_id, Selected.gen)}
    [] s = 10 -> {Art("audit", "none", 0)}

\* the artifacts the executor of a sequential stage saves (save_artifact)
StageSaves(s) ==
  IF s = 4 THEN {Art("candidate", c, 0) : c \in CandIds} ELSE StageArtifacts(s)

\* the same artifacts in the order the executor saves them
StageSaveOrder(s) ==
  CASE s = 3 -> [f \in 1..NumFunds |-> Art("features", "none", f)]
    [] s = 4 -> [i \in 1..Len(CandOrder) |-> Art("candidate", CandOrder[i], 0)]
    [] s = 9 -> <<Art("memo", Selected.candidate_id, Selected.gen),
                  Art("risk_appendix", Selected.candidate_id, Selected.gen)>>
    [] OTHER -> <<CHOOSE a \in StageSaves(s) : TRUE>>

\* audit.py:61-69 artifact_hashes: the hashes of the mandate, the universe,
\* the decision and the memo, and of each candidate the blackboard holds
AuditHashes ==
  {a \in artifacts : a.slot \in {"mandate", "universe", "memo"}}
  \cup {Art("decision", "none", 0)}
  \cup {Art("candidate", c, candidates[c].gen) : c \in DOMAIN candidates}

\* workflow.py:147 result = await executor_fn(): the executor of a
\* sequential stage returns
ExecReturn ==
  /\ pc = "stage_exec"
  /\ cur \in SeqStages
  /\ SetBus(EmitAll(Bus, ExecutorEvents(cur)))
  /\ artifacts' = artifacts \cup StageArtifacts(cur)
  /\ candidates' = IF cur = 4 THEN [c \in CandIds |-> Cand(c, 1, 0)] ELSE candidates
  /\ store' = store \cup StageSaves(cur)
  /\ blobs' = SaveAll(blobs, StageSaveOrder(cur))
  /\ audit_hashes' = IF cur = NumStages THEN AuditHashes ELSE audit_hashes
  /\ pc' = "stage_ok"
  /\ UNCHANGED <<cur, runVars, stageVars, exc, raised, compliance_reports,
                 redteam_reports, decision, fanVars, rep>>

\* workflow.py:147 the executor of a sequential stage (or of stage 7) raises:
\* the database, the artifact store or the bus is unreachable
ExecRaise ==
  /\ pc = "stage_exec"
  /\ cur \in SeqStages \cup {SelectStage}
  /\ raised' = ExecutorError(cur, "none")
  /\ pc' = "stage_err"
  /\ UNCHANGED <<cur, runVars, stageVars, busVars, exc, boardVars, fanVars, rep>>

\* ------------------------------------------------ stage 5: the fan-out
\* schemas/runs.py:110 the run's seed (its default)
RunSeed == 42

\* redteam.py STRESS_SCENARIOS: the catalogue has seven scenarios
NumScenarios == 7

\* the categories of the failed rules of a compliance check, among those the
\* code tells apart
FailedSets == SUBSET {"concentration", "allocation", "esg"}

\* the verdicts the checks of candidate c can give in this world
ComplianceVerdicts(c) ==
  IF c = world.focus THEN FailedSets
  ELSE IF world.focus = "none" THEN {{}} ELSE {{}, {"esg"}}
RedTeamVerdicts(c) == IF c = world.focus THEN BOOLEAN ELSE {TRUE}

\* whether the loop can resume the task of candidate c now
Position(c) == CHOOSE i \in 1..Len(CandOrder) : CandOrder[i] = c
Runnable(c) ==
  \/ world.order = "any"
  \/ \A d \in CandIds : Position(d) < Position(c) => unit[d] \in {"done", "raised"}

\* compliance.py:156-181 the report: passed iff no rule failed; a failed rule
\* of a critical category is a critical failure, any other a warning
ComplianceReport(c, failed, gen) ==
  [candidate_id |-> c, failed |-> failed, passed |-> failed = {},
   critical |-> failed \cap CriticalCategories,
   warnings |-> failed \ CriticalCategories, parent |-> gen]

\* redteam.py:152-175 the report
RedTeamReport(c, passed, gen, seed) ==
  [candidate_id |-> c, passed |-> passed, parent |-> gen, seed |-> seed]

\* compliance.py execute(): the events it emits
ComplianceEvents == <<Progress("verify_candidates"), Persisted("verify_candidates")>>
\* redteam.py execute(): one progress event, one per scenario, the save
RedTeamEvents ==
  <<Progress("verify_candidates")>>
  \o Repeat(<<Progress("verify_candidates")>>, NumScenarios)
  \o <<Persisted("verify_candidates")>>

\* workflow.py:351-365 / 383-397 CANDIDATE_PASSED, or CANDIDATE_FAILED at warn
Verdict(c, passed) ==
  IF passed THEN Ev("candidate_passed", "info", "none", c)
  ELSE Ev("candidate_failed", "warn", "none", c)

\* workflow.py:327-331 one task per candidate, handed to asyncio.gather
VerifyLaunch ==
  /\ pc = "stage_exec"
  /\ cur = VerifyStage
  /\ unit' = [c \in CandIds |-> IF c \in DOMAIN candidates THEN "compliance" ELSE "idle"]
  /\ pc' = "gather"
  /\ UNCHANGED <<cur, runVars, stageVars, busVars, exc, raised, boardVars,
                 firstRaised, rep>>

\* workflow.py:335-365 a candidate's task: COMPLIANCE_CHECK, the compliance
\* executor, the report into the blackboard, the verdict event
UnitCompliance(c) ==
  /\ unit[c] = "compliance"
  /\ Runnable(c)
  /\ \E failed \in ComplianceVerdicts(c) :
       LET report == ComplianceReport(c, failed, candidates[c].gen) IN
       /\ compliance_reports' = (c :> report) @@ compliance_reports
       /\ store' = store \cup {Art("compliance_report", c, report.parent)}
       /\ blobs' = Save(blobs, Art("compliance_report", c, report.parent))
       /\ SetBus(EmitAll(Bus, <<Ev("compliance_check", "info", "none", c)>>
                              \o ComplianceEvents
                              \o <<Verdict(c, report.passed)>>))
  /\ unit' = [unit EXCEPT ![c] = "redteam"]
  /\ UNCHANGED <<pc, cur, runVars, stageVars, exc, raised, artifacts, candidates,
                 redteam_reports, decision, audit_hashes, firstRaised, rep>>

\* workflow.py:367-397 the same task goes on: REDTEAM_CHECK, the red-team
\* executor with the run's seed, the report, the verdict event; the task ends
UnitRedTeam(c) ==
  /\ unit[c] = "redteam"
  /\ Runnable(c)
  /\ \E passed \in RedTeamVerdicts(c) :
       /\ redteam_reports' =
            (c :> RedTeamReport(c, passed, candidates[c].gen, RunSeed)) @@ redteam_reports
       /\ store' = store \cup {Art("redteam_report", c, candidates[c].gen)}
       /\ blobs' = Save(blobs, Art("redteam_report", c, candidates[c].gen))
       /\ SetBus(EmitAll(Bus, <<Ev("redteam_check", "info", "none", c)>>
                              \o RedTeamEvents
                              \o <<Verdict(c, passed)>>))
  /\ unit' = [unit EXCEPT ![c] = "done"]
  /\ UNCHANGED <<pc, cur, runVars, stageVars, exc, raised, artifacts, candidates,
                 compliance_reports, decision, audit_hashes, firstRaised, rep>>

\* a candidate's compliance or red-team executor raises: the task ends with
\* the exception, after the check's announcement was emitted
UnitRaise(c) ==
  /\ unit[c] \in {"compliance", "redteam"}
  /\ Runnable(c)
  /\ SetBus(Emit(Bus, Ev(IF unit[c] = "compliance" THEN "compliance_check"
                         ELSE "redteam_check", "info", "none", c)))
  /\ unit' = [unit EXCEPT ![c] = "raised"]
  /\ firstRaised' = IF firstRaised = NoExc THEN ExecutorError(VerifyStage, c)
                    ELSE firstRaised
  /\ UNCHANGED <<pc, cur, runVars, stageVars, exc, raised, boardVars, rep>>

\* seeded fault: the tasks still running are cancelled with the first exception
SiblingsCancelled(u) ==
  [c \in DOMAIN u |-> IF u[c] \in {"compliance", "redteam"} THEN "cancelled" ELSE u[c]]

\* asyncio.gather(*tasks), return_exceptions left False: what becomes of the
\* sibling tasks when the first exception is propagated (they keep running)
Siblings(u) == u

\* workflow.py:331 await asyncio.gather(*tasks) returns: every task returned
GatherReturn ==
  /\ pc = "gather"
  /\ \A c \in CandIds : unit[c] = "done"
  /\ pc' = "stage_ok"
  /\ UNCHANGED <<cur, runVars, stageVars, busVars, exc, raised, boardVars, fanVars, rep>>

\* workflow.py:331 gather propagates the first exception of a task to
\* _verify_candidates as soon as the loop resumes it
GatherRaise ==
  /\ pc = "gather"
  /\ firstRaised # NoExc
  /\ raised' = firstRaised
  /\ unit' = Siblings(unit)
  /\ pc' = "stage_err"
  /\ UNCHANGED <<cur, runVars, stageVars, busVars, exc, boardVars, firstRaised, rep>>

\* ---------------------------------------------- stage 6: the repair loop
\* workflow.py:411 the candidates _repair_loop sends to the repair executor
NeedsRepair(c) ==
  \/ (c \in DOMAIN compliance_reports /\ ~compliance_reports[c].passed)
  \/ (c \in DOMAIN redteam_reports /\ ~redteam_reports[c].passed)

\* seeded fault: the executor has no early return and enters its loop
NoRepairNeededNever(comp, red) == FALSE

\* repair.py:63-69 the executor's own test: nothing to repair
NoRepairNeeded(comp, red) == comp.passed /\ red.passed

\* repair.py:148-196 _apply_repair makes a repair for a failed concentration
\* or allocation rule and for a failed red-team report, and for nothing else
RepairsMade(comp, red) ==
  (IF ~comp.passed THEN comp.failed \cap {"concentration", "allocation"} ELSE {})
  \cup (IF ~red.passed THEN {"redteam"} ELSE {})

\* seeded fault: the repaired candidate is built with the id of the first
\* configuration instead of the id of the candidate it was made from
RepairedRenamed(cand) == Cand("A", 1, cand.gen + 1)

\* repair.py:198-223 the repaired candidate: a new artifact with the same
\* candidate_id; no version is passed, so ArtifactBase.version's default holds
Repaired(cand) == Cand(cand.candidate_id, 1, cand.gen + 1)

\* repair.py:117 the seed of the red-team re-run
RepairSeed(attempt) == 42 + attempt

\* workflow.py:407-425 the loop over the candidates: a candidate with a failed
\* report is announced (REPAIR_ITERATION) and handed to the repair executor
RepairNext ==
  /\ pc = "stage_exec"
  /\ cur = RepairStage
  /\ rep.attempt = 0
  /\ rep.idx <= Len(CandOrder)
  /\ LET c == CandOrder[rep.idx] IN
     IF NeedsRepair(c)
     THEN /\ SetBus(Emit(Bus, Ev("repair_iteration", "info", "none", c)))
          /\ rep' = [rep EXCEPT !.attempt = 1, !.cand = candidates[c],
                                !.comp = compliance_reports[c],
                                !.red = redteam_reports[c]]
     ELSE /\ rep' = NoRep(rep.idx + 1)
          /\ UNCHANGED busVars
  /\ UNCHANGED <<pc, cur, runVars, stageVars, exc, raised, boardVars, fanVars>>

\* seeded fault: only the candidate is stored, the reports are left as they were
RepairResultCandidateOnly(c, cand, comp, red) ==
  /\ candidates' = [candidates EXCEPT ![c] = cand]
  /\ UNCHANGED <<compliance_reports, redteam_reports>>

\* seeded fault: only the reports are stored, the candidate is left as it was
RepairResultReportsOnly(c, cand, comp, red) ==
  /\ compliance_reports' = [compliance_reports EXCEPT ![c] = comp]
  /\ redteam_reports' = [redteam_reports EXCEPT ![c] = red]
  /\ UNCHANGED candidates

\* workflow.py:428-437 what _repair_loop does with the executor's result
RepairResult(c, cand, comp, red) ==
  /\ candidates' = [candidates EXCEPT ![c] = cand]
  /\ compliance_reports' = [compliance_reports EXCEPT ![c] = comp]
  /\ redteam_reports' = [redteam_reports EXCEPT ![c] = red]

\* seeded fault: the loop goes on after an attempt whose checks both passed
ReturnsWhenExhausted(ok, attempt) == attempt = MaxAttempts

\* repair.py:75, 119-137 the executor returns after an attempt whose two
\* checks passed, and after the last attempt
Returns(ok, attempt) == ok \/ attempt = MaxAttempts

\* repair.py:75-137 one iteration of the executor's loop: REPAIR_ITERATION and
\* a progress event, _apply_repair, and when it made a candidate the
\* compliance and the red-team re-run; the executor returns when both pass or
\* after the last attempt, and _repair_loop stores what it returned
RepairAttempt ==
  /\ pc = "stage_exec"
  /\ cur = RepairStage
  /\ rep.attempt \in 1..MaxAttempts
  /\ LET c == rep.cand.candidate_id
         head == <<Ev("repair_iteration", "info", "none", c), Progress("repair_loop")>>
         last == rep.attempt = MaxAttempts
     IN
     IF rep.attempt = 1 /\ NoRepairNeeded(rep.comp, rep.red)
     THEN \* repair.py:67 returned before the loop
          /\ RepairResult(c, rep.cand, rep.comp, rep.red)
          /\ SetBus(Emit(Bus, Ev("candidate_repaired", "info", "none", c)))
          /\ rep' = NoRep(rep.idx + 1)
          /\ UNCHANGED <<store, blobs>>
     ELSE IF RepairsMade(rep.comp, rep.red) = {}
     THEN \* repair.py:93-99 no repair was made: continue
          /\ UNCHANGED <<store, blobs>>
          /\ IF last
             THEN /\ RepairResult(c, rep.cand, rep.comp, rep.red)
                  /\ SetBus(EmitAll(Bus, head \o <<Ev("candidate_repaired", "info", "none", c)>>))
                  /\ rep' = NoRep(rep.idx + 1)
             ELSE /\ SetBus(EmitAll(Bus, head))
                  /\ rep' = [rep EXCEPT !.attempt = @ + 1]
                  /\ UNCHANGED <<candidates, compliance_reports, redteam_reports>>
     ELSE \E failed \in ComplianceVerdicts(c), passed \in RedTeamVerdicts(c) :
          LET repaired == Repaired(rep.cand)
              new_compliance == ComplianceReport(c, failed, repaired.gen)
              new_redteam == RedTeamReport(c, passed, repaired.gen, RepairSeed(rep.attempt))
              ok == new_compliance.passed /\ new_redteam.passed
              events == head \o <<Persisted("repair_loop")>>
                        \o ComplianceEvents \o RedTeamEvents
          IN
          \* compliance.py:144 the ESG rule draws from a generator seeded with
          \* the candidate id: its outcome does not change with the repair
          /\ ("esg" \in failed) = ("esg" \in rep.comp.failed)
          \* repair.py:225, compliance.py:184, redteam.py:178 the three saves
          /\ store' = store \cup {Art("candidate", c, repaired.gen),
                                  Art("compliance_report", c, repaired.gen),
                                  Art("redteam_report", c, repaired.gen)}
          /\ blobs' = SaveAll(blobs, <<Art("candidate", c, repaired.gen),
                                       Art("compliance_report", c, repaired.gen),
                                       Art("redteam_report", c, repaired.gen)>>)
          /\ IF Returns(ok, rep.attempt)
             THEN /\ RepairResult(c, repaired, new_compliance, new_redteam)
                  /\ SetBus(EmitAll(Bus, events \o <<Ev("candidate_repaired", "info", "none", c)>>))
                  /\ rep' = NoRep(rep.idx + 1)
             ELSE /\ SetBus(EmitAll(Bus, events))
                  /\ rep' = [rep EXCEPT !.attempt = @ + 1, !.cand = repaired,
                                        !.comp = new_compliance, !.red = new_redteam]
                  /\ UNCHANGED <<candidates, compliance_reports, redteam_reports>>
  /\ UNCHANGED <<pc, cur, runVars, stageVars, exc, raised, artifacts, decision,
                 audit_hashes, fanVars>>

\* the repair executor raises during an attempt (the artifact store or the
\* bus is unreachable)
RepairRaise ==
  /\ pc = "stage_exec"
  /\ cur = RepairStage
  /\ rep.attempt \in 1..MaxAttempts
  /\ raised' = ExecutorError(RepairStage, rep.cand.candidate_id)
  /\ pc' = "stage_err"
  /\ UNCHANGED <<cur, runVars, stageVars, busVars, exc, boardVars, fanVars, rep>>

\* workflow.py:407 the loop over the candidates ends; _repair_loop returns
RepairDone ==
  /\ pc = "stage_exec"
  /\ cur = RepairStage
  /\ rep.attempt = 0
  /\ rep.idx > Len(CandOrder)
  /\ pc' = "stage_ok"
  /\ UNCHANGED <<cur, runVars, stageVars, busVars, exc, raised, boardVars, fanVars, rep>>

\* ------------------------------------------------ stage 7: rank / select
\* selection.py:76-85 a candidate with a failed compliance or red-team report
\* is rejected (and scored 0)
IsRejected(c, comps, reds) ==
  \/ (c \in DOMAIN comps /\ ~comps[c].passed)
  \/ (c \in DOMAIN reds /\ ~reds[c].passed)

RejectedOf(cands, comps, reds) ==
  {c \in DOMAIN cands : IsRejected(c, comps, reds)}

\* the keys of a dict in iteration order, restricted to a set
RECURSIVE InOrder(_, _)
InOrder(order, S) ==
  IF order = <<>> THEN <<>>
  ELSE (IF Head(order) \in S THEN <<Head(order)>> ELSE <<>>) \o InOrder(Tail(order), S)

\* seeded fault: the first key, whatever its score
FirstKey(keys, score) == keys[1]

\* Python's max(iterable, key=...): the first element with the largest key
RECURSIVE MaxFirst(_, _)
MaxFirst(keys, score) ==
  IF Len(keys) = 1 THEN keys[1]
  ELSE LET m == MaxFirst(Tail(keys), score)
       IN IF score[keys[1]] >= score[m] THEN keys[1] ELSE m

\* seeded fault: the rationale of a regular selection whatever was eligible
SelectWinnerSilently(scores, rejected) ==
  LET eligible == InOrder(CandOrder, DOMAIN scores \ rejected)
  IN [selected |-> MaxFirst(IF eligible = <<>> THEN InOrder(CandOrder, DOMAIN scores)
                            ELSE eligible, scores),
      rationale |-> "selected_with_score"]

\* selection.py:123-138 the winner: the best of the eligible candidates, or
\* with none eligible the best of all
SelectWinner(scores, rejected) ==
  LET eligible == InOrder(CandOrder, DOMAIN scores \ rejected)
  IN IF eligible = <<>>
     THEN [selected |-> MaxFirst(InOrder(CandOrder, DOMAIN scores), scores),
           rationale |-> "no_candidates_passed"]
     ELSE [selected |-> MaxFirst(eligible, scores), rationale |-> "selected_with_score"]

\* selection.py:36-168 execute(): the scores, the winner, the Decision
MakeDecision(cands, comps, reds, eligibleScore) ==
  LET rejected == RejectedOf(cands, comps, reds)
      scores == [c \in DOMAIN cands |-> IF c \in rejected THEN 0 ELSE eligibleScore[c]]
      w == SelectWinner(scores, rejected)
  IN [selected |-> w.selected, rationale |-> w.rationale,
      scores |-> scores, rejected |-> rejected]

\* seeded fault: the candidates are gone through in no fixed order, so that
\* among eligible candidates of equal best score any one can be returned
DecisionsAnyBest(cands, comps, reds, eligibleScore) ==
  LET d == MakeDecision(cands, comps, reds, eligibleScore)
      pool == IF DOMAIN cands \ d.rejected = {} THEN DOMAIN cands
              ELSE DOMAIN cands \ d.rejected
  IN {[d EXCEPT !.selected = w] :
        w \in {c \in pool : \A e \in pool : d.scores[c] >= d.scores[e]}}

\* selection.py:36-168 the Decisions execute() can return for given inputs:
\* the dicts are gone through in insertion order, max() returns the first
\* of the largest and nothing is drawn at random, so there is one
Decisions(cands, comps, reds, eligibleScore) ==
  {MakeDecision(cands, comps, reds, eligibleScore)}

\* workflow.py:439-463 _rank_select: the executor, then DECISION_MADE
RankSelect ==
  /\ pc = "stage_exec"
  /\ cur = SelectStage
  /\ \E sc \in [DOMAIN candidates \ RejectedOf(candidates, compliance_reports, redteam_reports)
                 -> 0..MaxScore] :
       decision' \in Decisions(candidates, compliance_reports, redteam_reports, sc)
  /\ store' = store \cup {Art("decision", "none", 0)}
  /\ blobs' = Save(blobs, Art("decision", "none", 0))
  /\ SetBus(EmitAll(Bus, <<Progress("rank_select"), Progress("rank_select"),
                           Persisted("rank_select"),
                           Ev("decision_made", "info", "none", "none")>>))
  /\ pc' = "stage_ok"
  /\ UNCHANGED <<cur, runVars, stageVars, exc, raised, artifacts, candidates,
                 compliance_reports, redteam_reports, audit_hashes, fanVars, rep>>

\* ------------------------------------------- execute_workflow, the ending
\* main.py:329 execute() returned: update_run_status(COMPLETED)
RunComplete ==
  /\ pc = "returned"
  /\ UpdateRunStatus("completed", NoExc, "none")
  /\ pc' = "publish_completed"
  /\ UNCHANGED <<cur, stageVars, busVars, exc, raised, boardVars, fanVars, rep>>

\* main.py:332-336 publish RUN_COMPLETED
PublishCompleted ==
  /\ pc = "publish_completed"
  /\ SetBus(Publish(Bus, Ev("run_completed", "info", "none", "none"), 0))
  /\ pc' = "done"
  /\ UNCHANGED <<cur, runVars, stageVars, exc, raised, boardVars, fanVars, rep>>

\* main.py:332 the publish raises (Redis unreachable): still inside the try
PublishCompletedRaise ==
  /\ pc = "publish_completed"
  /\ exc' = BusError(cur)
  /\ busFailed' = TRUE
  /\ pc' = "raised"
  /\ UNCHANGED <<cur, runVars, stageVars, sequence, busCounter, stream, raised,
                 boardVars, fanVars, rep>>

\* the handler writing the status and returning, nothing being published
HandleFailureUnpublished ==
  /\ pc = "raised"
  /\ UpdateRunStatus("failed", exc, "none")
  /\ pc' = "done"
  /\ UNCHANGED <<cur, stageVars, busVars, exc, raised, boardVars, fanVars, rep>>

\* main.py:340-354 except Exception: update_run_status(FAILED, str(e)), no
\* error_stage being passed, and publish RUN_FAILED at error level
HandleFailure ==
  /\ pc = "raised"
  /\ UpdateRunStatus("failed", exc, "none")
  /\ \/ SetBus(Publish(Bus, Ev("run_failed", "error", "none", "none"), 0))
     \/ \* main.py:353 the publish raises and the exception is swallowed
        /\ busFailed
        /\ UNCHANGED busVars
  /\ pc' = "done"
  /\ UNCHANGED <<cur, stageVars, exc, raised, boardVars, fanVars, rep>>

\* ------------------------------------------------------------ cancellation
\* what becomes of the verification tasks when the task awaiting gather() is
\* cancelled: a gather that is not done yet cancels its children; one that is
\* done (it already holds the first exception) cancels nothing
CancelChildren(u) ==
  IF pc = "gather" /\ firstRaised = NoExc
  THEN [c \in DOMAIN u |-> IF u[c] \in {"compliance", "redteam"} THEN "cancelled" ELSE u[c]]
  ELSE u

\* the background task is cancelled while execute_stage awaits the stage's
\* executor (workflow.py:147): asyncio.CancelledError is raised there. It is
\* a BaseException, so neither except Exception of execute_stage
\* (workflow.py:167) nor the one of execute_workflow (main.py:340) catches
\* it: the task ends and no status is written
Cancel ==
  /\ pc \in {"stage_exec", "gather"}
  /\ pc' = "cancelled"
  /\ unit' = CancelChildren(unit)
  /\ UNCHANGED <<cur, runVars, stageVars, busVars, exc, raised, boardVars,
                 firstRaised, rep>>

\* ------------------------------------------------------------------- next
Next ==
  \/ StartRun
  \/ ExecuteEnter
  \/ StageStart
  \/ ExecReturn
  \/ ExecRaise
  \/ VerifyLaunch
  \/ \E c \in CandIds : UnitCompliance(c)
  \/ \E c \in CandIds : UnitRedTeam(c)
  \/ \E c \in CandIds : UnitRaise(c)
  \/ GatherReturn
  \/ GatherRaise
  \/ RepairNext
  \/ RepairAttempt
  \/ RepairRaise
  \/ RepairDone
  \/ RankSelect
  \/ StageSucceed
  \/ StageFail
  \/ RunComplete
  \/ PublishCompleted
  \/ PublishCompletedRaise
  \/ HandleFailure
  \/ Cancel

Spec == Init /\ [][Next]_vars

\* the event loop keeps running the tasks that can run: while a task has a
\* step to take, some task takes a step
FairSpec == Spec /\ WF_vars(Next)

\* ------------------------------------------- the repair executor, called
\* what stages 1 to 5 have saved, the verification tasks having run one
\* after the other
SavedBeforeRepair ==
  StageSaveOrder(1) \o StageSaveOrder(2) \o StageSaveOrder(3) \o StageSaveOrder(4)
  \o [i \in 1..Len(CandOrder) |-> Art("compliance_report", CandOrder[i], 0)]
  \o [i \in 1..Len(CandOrder) |-> Art("redteam_report", CandOrder[i], 0)]

\* RepairLoopExecutor.execute called on any candidate with any pair of
\* reports, passing ones included (_repair_loop itself calls it only with a
\* failed report): stages 1 to 5 have succeeded, the blackboard holds the
\* three candidates and their reports, the stream is read from the call on
RepairCallInit ==
  /\ world \in Worlds
  /\ pc = "stage_exec"
  /\ cur = RepairStage
  /\ runExists = TRUE
  /\ runStatus = "running"
  /\ runError = [message |-> NoExc, stage |-> "none"]
  /\ terminalWrites = 0
  /\ candidateRows = NewCandidateRows
  /\ made = <<>>
  /\ rng = NoRng
  /\ scenario_results = [c \in CandIds |-> <<>>]
  /\ stageStatus = [s \in Stages |-> IF s < RepairStage THEN "succeeded"
                                     ELSE IF s = RepairStage THEN "running"
                                     ELSE "pending"]
  /\ stageError = [s \in Stages |-> NoExc]
  /\ completions = [i \in 1..VerifyStage |-> i]
  /\ sequence = 0
  /\ busCounter = 1
  /\ stream = <<>>
  /\ busFailed = FALSE
  /\ exc = NoExc
  /\ raised = NoExc
  /\ artifacts = StageArtifacts(1) \cup StageArtifacts(2) \cup StageArtifacts(3)
  /\ candidates = [c \in CandIds |-> Cand(c, 1, 0)]
  /\ \E c \in CandIds, failed \in FailedSets, passed \in BOOLEAN :
       /\ compliance_reports =
            [d \in CandIds |-> ComplianceReport(d, IF d = c THEN failed ELSE {}, 0)]
       /\ redteam_reports =
            [d \in CandIds |-> RedTeamReport(d, d # c \/ passed, 0, RunSeed)]
       /\ rep = [idx |-> Position(c), attempt |-> 1, cand |-> Cand(c, 1, 0),
                 comp |-> ComplianceReport(c, failed, 0),
                 red |-> RedTeamReport(c, passed, 0, RunSeed)]
  /\ decision = NoDecision
  /\ store = StageSaves(1) \cup StageSaves(2) \cup StageSaves(3) \cup StageSaves(4)
             \cup {Art("compliance_report", c, 0) : c \in CandIds}
             \cup {Art("redteam_report", c, 0) : c \in CandIds}
  /\ blobs = SaveAll(<<>>, SavedBeforeRepair)
  /\ audit_hashes = {}
  /\ unit = [c \in CandIds |-> "done"]
  /\ firstRaised = NoExc

\* the call runs to its return, attempt after attempt
RepairCallNext == RepairAttempt

RepairCallSpec == RepairCallInit /\ [][RepairCallNext]_vars

\* ------------------------------------------- the select executor, called
\* selection.py:58, 140, 160 the events of one call of the executor
SelectEvents == <<Progress("rank_select"), Progress("rank_select"), Persisted("rank_select")>>

\* RankSelectExecutor.execute is about to be called: stages 1 to 6 have
\* succeeded, the blackboard holds the three candidates and for each a
\* compliance and a red-team report of any verdict; the stream is read from
\* the first call on
SelectCallInit ==
  /\ world \in Worlds
  /\ pc = "stage_exec"
  /\ cur = SelectStage
  /\ runExists = TRUE
  /\ runStatus = "running"
  /\ runError = [message |-> NoExc, stage |-> "none"]
  /\ terminalWrites = 0
  /\ candidateRows = NewCandidateRows
  /\ made = <<>>
  /\ rng = NoRng
  /\ scenario_results = [c \in CandIds |-> <<>>]
  /\ stageStatus = [s \in Stages |-> IF s < SelectStage THEN "succeeded"
                                     ELSE IF s = SelectStage THEN "running"
                                     ELSE "pending"]
  /\ stageError = [s \in Stages |-> NoExc]
  /\ completions = [i \in 1..RepairStage |-> i]
  /\ sequence = 0
  /\ busCounter = 1
  /\ stream = <<>>
  /\ busFailed = FALSE
  /\ exc = NoExc
  /\ raised = NoExc
  /\ artifacts = StageArtifacts(1) \cup StageArtifacts(2) \cup StageArtifacts(3)
  /\ candidates = [c \in CandIds |-> Cand(c, 1, 0)]
  /\ compliance_reports \in
       [CandIds -> {ComplianceReport(c, failed, 0) : c \in CandIds, failed \in {{}, {"esg"}}}]
  /\ \A c \in CandIds : compliance_reports[c].candidate_id = c
  /\ redteam_reports \in
       [CandIds -> {RedTeamReport(c, passed, 0, RunSeed) : c \in CandIds, passed \in BOOLEAN}]
  /\ \A c \in CandIds : redteam_reports[c].candidate_id = c
  /\ decision = NoDecision
  /\ store = StageSaves(1) \cup StageSaves(2) \cup StageSaves(3) \cup StageSaves(4)
             \cup {Art("compliance_report", c, 0) : c \in CandIds}
             \cup {Art("redteam_report", c, 0) : c \in CandIds}
  /\ blobs = SaveAll(<<>>, SavedBeforeRepair)
  /\ audit_hashes = {}
  /\ unit = [c \in CandIds |-> "done"]
  /\ firstRaised = NoExc
  /\ rep = NoRep(Len(CandOrder) + 1)

\* one call of the executor on the blackboard. The scores of the eligible
\* candidates follow from the candidates' metrics and the red-team reports:
\* any scores in the first call, and in a later call, the inputs being the
\* same, the scores they had in the first
SelectCall ==
  /\ pc = "stage_exec"
  /\ cur = SelectStage
  /\ Len(stream) < MaxCalls * Len(SelectEvents)
  /\ LET eligible == DOMAIN candidates
                      \ RejectedOf(candidates, compliance_reports, redteam_reports)
     IN \E sc \in [eligible -> 0..MaxScore] :
          /\ decision # NoDecision => \A c \in eligible : sc[c] = decision.scores[c]
          /\ decision' \in Decisions(candidates, compliance_reports, redteam_reports, sc)
  /\ store' = store \cup {Art("decision", "none", 0)}
  /\ blobs' = Save(blobs, Art("decision", "none", 0))
  /\ SetBus(EmitAll(Bus, SelectEvents))
  /\ UNCHANGED <<pc, cur, runVars, stageVars, exc, raised, artifacts, candidates,
                 compliance_reports, redteam_reports, audit_hashes, fanVars, rep>>

SelectCallNext == SelectCall

SelectCallSpec == SelectCallInit /\ [][SelectCallNext]_vars

\* --------------------------------------------- artifacts and their hash
\* the values uuid.uuid4().hex[:8] and datetime.utcnow() can take
NumUuids == 2
NumTimes == 2
Uuids == 1..NumUuids
Times == 1..NumTimes

\* an artifact: ArtifactBase's lineage and audit fields and, as a dict in
\* insertion order, the artifact's own fields
Artifact(artifact_id, created_at, stage, fields) ==
  [artifact_id |-> artifact_id, created_at |-> created_at, run_id |-> "run",
   stage_id |-> stage, fields |-> fields]

\* artifacts.py:46 model_dump(exclude={"artifact_hash", "created_at"}): every
\* other field, artifact_id included
ModelDump(a) ==
  <<<<"artifact_id", a.artifact_id>>, <<"run_id", a.run_id>>,
    <<"stage_id", a.stage_id>>>> \o a.fields

\* artifacts.py:47 json.dumps(content, sort_keys=True): the keys in sorted
\* order, so that the text is given by the set of the key-value pairs
JsonDumpsSorted(content) == {content[i] : i \in 1..Len(content)}

\* artifacts.py:43-49 artifact_hash: sha256 of that text (taken as injective)
ArtifactHash(a) == JsonDumpsSorted(ModelDump(a))

\* mandate.py:16-77 MANDATE_TEMPLATES: name, risk budget and largest single
\* position (in percent) of each template
MandateTemplates ==
  [balanced_growth |->
     <<<<"mandate_name", "Balanced Growth Fund">>, <<"risk_budget", 15>>,
       <<"max_single_position", 8>>>>,
   conservative_income |->
     <<<<"mandate_name", "Conservative Income Fund">>, <<"risk_budget", 8>>,
       <<"max_single_position", 5>>>>,
   aggressive_growth |->
     <<<<"mandate_name", "Aggressive Growth Fund">>, <<"risk_budget", 25>>,
       <<"max_single_position", 10>>>>]

\* the mandate ids a caller passes: the templates' and one unknown to them
MandateIds == DOMAIN MandateTemplates \cup {"unknown-mandate-xyz"}

\* mandate.py:96-136 LoadMandateExecutor.execute: the template of the id, or
\* for an unknown id the template balanced_growth, mandate_id being set to
\* "balanced_growth" as well
LoadMandate(mandate_id, uuid, now) ==
  LET known == mandate_id \in DOMAIN MandateTemplates
      template == IF known THEN MandateTemplates[mandate_id]
                  ELSE MandateTemplates["balanced_growth"]
      id == IF known THEN mandate_id ELSE "balanced_growth"
  IN Artifact(<<"mandate", uuid>>, now, "load_mandate",
              <<<<"mandate_id", id>>>> \o template)

\* candidates.py:66-70 seed_offset of each config
SeedOffset(c) == CASE c = "A" -> 0 [] c = "B" -> 1000 [] c = "C" -> 2000

\* the seeds a run is started with
Seeds == {RunSeed, RunSeed + 1}

\* candidates.py:92-211 _generate_candidate: random.seed(seed) and then, with
\* no await in between, every draw: holdings, weights and metrics are a
\* function of the config and the seed (the mandate, universe and features
\* being fixed); artifact_id is drawn by uuid4
GenerateCandidate(c, seed, uuid, now) ==
  Artifact(<<"candidate", c, uuid>>, now, "generate_candidates",
           <<<<"candidate_id", c>>, <<"diversity_seed", seed + SeedOffset(c)>>,
             <<"holdings", <<c, seed + SeedOffset(c)>>>>>>)

\* the executors of stages 1 and 4 called on their own, one call after the
\* other, each with any input, any uuid and any clock
ArtifactCallInit ==
  /\ world \in Worlds
  /\ pc = "stage_exec"
  /\ cur = 1
  /\ runExists = TRUE
  /\ runStatus = "running"
  /\ runError = [message |-> NoExc, stage |-> "none"]
  /\ terminalWrites = 0
  /\ candidateRows = NewCandidateRows
  /\ made = <<>>
  /\ rng = NoRng
  /\ scenario_results = [c \in CandIds |-> <<>>]
  /\ stageStatus = [s \in Stages |-> IF s = 1 THEN "running" ELSE "pending"]
  /\ stageError = [s \in Stages |-> NoExc]
  /\ completions = <<>>
  /\ sequence = 0
  /\ busCounter = 1
  /\ stream = <<>>
  /\ busFailed = FALSE
  /\ exc = NoExc
  /\ raised = NoExc
  /\ artifacts = {}
  /\ candidates = <<>>
  /\ compliance_reports = <<>>
  /\ redteam_reports = <<>>
  /\ decision = NoDecision
  /\ store = {}
  /\ blobs = <<>>
  /\ audit_hashes = {}
  /\ unit = [c \in CandIds |-> "idle"]
  /\ firstRaised = NoExc
  /\ rep = NoRep(1)

\* mandate.py:96-136 one call of LoadMandateExecutor.execute
LoadMandateCall ==
  /\ Len(made) < MaxCalls
  /\ \E id \in MandateIds, uuid \in Uuids, now \in Times :
       made' = Append(made, [call |-> "load_mandate", input |-> <<id>>,
                             out |-> <<LoadMandate(id, uuid, now)>>])
  /\ SetBus(EmitAll(Bus, ExecutorEvents(1)))
  /\ UNCHANGED <<world, pc, cur, runExists, runStatus, runError, terminalWrites,
                 candidateRows, rng, scenario_results, stageVars, exc, raised,
                 boardVars, fanVars, rep>>

\* candidates.py:39-90 one call of GenerateCandidatesExecutor.execute: the
\* three candidates, in the order of the configs
GenerateCall ==
  /\ Len(made) < MaxCalls
  /\ \E seed \in Seeds, uuid \in Uuids, now \in Times :
       made' = Append(made, [call |-> "generate_candidates", input |-> <<seed>>,
                             out |-> [i \in 1..Len(CandOrder) |->
                                        GenerateCandidate(CandOrder[i], seed, uuid, now)]])
  /\ SetBus(EmitAll(Bus, SubSeq(ExecutorEvents(4), 1, 1 + 2 * Len(CandOrder))))
  /\ UNCHANGED <<world, pc, cur, runExists, runStatus, runError, terminalWrites,
                 candidateRows, rng, scenario_results, stageVars, exc, raised,
                 boardVars, fanVars, rep>>

ArtifactCallNext == LoadMandateCall \/ GenerateCall

ArtifactCallSpec == ArtifactCallInit /\ [][ArtifactCallNext]_vars

\* ------------------------------------------------- the holdings' weights
\* a weight is a whole number of ten-thousandths: the code rounds every
\* weight it stores to four decimals
Unit == 10000

\* candidates.py:143-144 the smallest weight a draw can give, 0.02
MinWeight == 200

\* the values random.random() takes: 0, 1/2 and (up to rounding) 1
Levels == 2

\* candidates.py:125 num_positions = random.randint(10, 20), the universe
\* holding at least that many funds with features
Positions == 10..20

\* round(p / q) for p >= 0 and q > 0, to the nearest whole number
Round(p, q) == (2 * p + q) \div (2 * q)

Min2(a, b) == IF a <= b THEN a ELSE b
Max2(a, b) == IF a >= b THEN a ELSE b

RECURSIVE Sum(_)
Sum(ws) == IF ws = <<>> THEN 0 ELSE Head(ws) + Sum(Tail(ws))

\* candidates.py:204, repair.py:218 max(h.weight for h in holdings), or 0
MaxPositionSize(ws) ==
  IF ws = <<>> THEN 0
  ELSE CHOOSE w \in {ws[i] : i \in 1..Len(ws)} : \A j \in 1..Len(ws) : ws[j] <= w

\* candidates.py:156-160, repair.py:242-246 the weights divided by their sum
\* and rounded to four decimals (the result is in units whatever the scale
\* of ws is)
Normalize(ws) ==
  LET total == Sum(ws)
  IN IF total > 0 THEN [i \in 1..Len(ws) |-> Round(ws[i] * Unit, total)] ELSE ws

\* mandate.py:16-77 max_single_position of a template, in units
MaxSinglePosition(id) ==
  LET t == MandateTemplates[id]
      i == CHOOSE k \in 1..Len(t) : t[k][1] = "max_single_position"
  IN t[i][2] * (Unit \div 100)

\* candidates.py:144-145 round(random.uniform(a, b), 4), u being the level
\* that random.random() returned
Uniform(a, b, u) == a + Round((b - a) * u, Levels)

\* candidates.py:135-147 the weights of holdings i..n, remaining being the
\* weight that is left: the last holding takes what is left, every other
\* one a draw between 0.02 and the cap
RECURSIVE DrawWeights(_, _, _, _, _)
DrawWeights(n, max_position, draws, i, remaining) ==
  IF i > n THEN <<>>
  ELSE LET max_w == Min2(max_position, remaining - MinWeight * (n - i))
           weight == IF i = n THEN remaining
                     ELSE Uniform(MinWeight, Max2(MinWeight, max_w), draws[i])
       IN <<weight>> \o DrawWeights(n, max_position, draws, i + 1, remaining - weight)

\* candidates.py:130-160 _generate_candidate, the weights of the n holdings
GenerateWeights(n, max_position, draws) ==
  Normalize(DrawWeights(n, max_position, draws, 1, Unit))

\* repair.py:231-240 the loop of _reduce_concentration from holding i on.
\* The weights are ws[j] / scale units: the division of the excess by the
\* number of small holdings is made exact by scaling every weight by it.
RECURSIVE CapFrom(_, _, _, _)
CapFrom(ws, scale, max_position, i) ==
  IF i > Len(ws) THEN [ws |-> ws, scale |-> scale]
  ELSE IF ws[i] > max_position * scale
  THEN LET excess == ws[i] - max_position * scale
           capped == [ws EXCEPT ![i] = max_position * scale]
           small == {j \in 1..Len(ws) : 2 * capped[j] < max_position * scale}
           k == Cardinality(small)
       IN IF small # {}
          THEN CapFrom([j \in 1..Len(ws) |->
                          IF j \in small
                          THEN Min2(max_position * scale * k, capped[j] * k + excess)
                          ELSE capped[j] * k],
                       scale * k, max_position, i + 1)
          ELSE CapFrom(capped, scale, max_position, i + 1)
  ELSE CapFrom(ws, scale, max_position, i + 1)

\* repair.py:229-248 _reduce_concentration: cap, spread the excess over the
\* small holdings, renormalise
ReduceConcentration(holdings, max_position) ==
  Normalize(CapFrom(holdings, 1, max_position, 1).ws)

\* repair.py:253 holdings.sort(key=weight, reverse=True)
RECURSIVE SortedByWeight(_)
SortedByWeight(ws) ==
  IF ws = <<>> THEN <<>>
  ELSE LET m == MaxPositionSize(ws)
           i == CHOOSE k \in 1..Len(ws) : ws[k] = m /\ \A j \in 1..(k - 1) : ws[j] # m
       IN <<m>> \o SortedByWeight(SubSeq(ws, 1, i - 1) \o SubSeq(ws, i + 1, Len(ws)))

\* repair.py:250-265 _reduce_risk: the three largest weights times 0.9 (in
\* tenths of a unit), then renormalise
ReduceRisk(holdings) ==
  LET sorted == SortedByWeight(holdings)
  IN Normalize([j \in 1..Len(sorted) |-> IF j <= 3 THEN 9 * sorted[j] ELSE 10 * sorted[j]])

\* compliance.py:54-56 rule CONC-001 passes
ConcentrationPassed(ws, max_position) == MaxPositionSize(ws) <= max_position

\* repair.py:139-227 _apply_repair: the holdings of the repaired candidate.
\* The concentration issue comes first, the red-team issue after it.
ApplyRepair(holdings, max_position, redteam_passed) ==
  LET reduced == IF ConcentrationPassed(holdings, max_position) THEN holdings
                 ELSE ReduceConcentration(holdings, max_position)
  IN IF redteam_passed THEN reduced ELSE ReduceRisk(reduced)

\* the draws of one generation: the first k at level a, the others at b
DrawSequences(n) ==
  {[i \in 1..(n - 1) |-> IF i <= k THEN a ELSE b] :
     k \in 0..(n - 1), a \in 0..Levels, b \in 0..Levels}

\* _generate_candidate and _apply_repair called on their own: a candidate
\* is generated for any mandate, any number of positions and any draws,
\* and then repaired once
WeightsCallInit == ArtifactCallInit

\* candidates.py:92-211 one call of _generate_candidate
GenerateWeightsCall ==
  /\ Len(made) = 0
  /\ \E id \in DOMAIN MandateTemplates, n \in Positions :
       \E draws \in DrawSequences(n) :
         made' = <<[call |-> "generate_candidate",
                    input |-> [max_position |-> MaxSinglePosition(id), n |-> n],
                    out |-> GenerateWeights(n, MaxSinglePosition(id), draws)]>>
  /\ UNCHANGED <<world, pc, cur, runExists, runStatus, runError, terminalWrites,
                 candidateRows, rng, scenario_results, stageVars, busVars, exc,
                 raised, boardVars, fanVars, rep>>

\* repair.py:139-227 one call of _apply_repair on the generated candidate,
\* whose compliance report has failed or whose red-team report has
ApplyRepairCall ==
  /\ Len(made) = 1
  /\ \E redteam_passed \in BOOLEAN :
       LET cand == made[1]
       IN /\ ~ConcentrationPassed(cand.out, cand.input.max_position) \/ ~redteam_passed
          /\ made' = Append(made,
                            [call |-> "apply_repair",
                             input |-> [max_position |-> cand.input.max_position,
                                        n |-> cand.input.n,
                                        redteam_passed |-> redteam_passed],
                             out |-> ApplyRepair(cand.out, cand.input.max_position,
                                                 redteam_passed)])
  \* repair.py:225 save_artifact(repaired), the candidate being that of
  \* the first config
  /\ SetBus(Emit(Bus, Persisted("repair_loop")))
  /\ store' = store \cup {Art("candidate", CandOrder[1], 1)}
  /\ blobs' = Save(blobs, Art("candidate", CandOrder[1], 1))
  /\ UNCHANGED <<world, pc, cur, runExists, runStatus, runError, terminalWrites,
                 candidateRows, rng, scenario_results, stageVars, exc, raised,
                 artifacts, candidates,
                 compliance_reports, redteam_reports, decision, audit_hashes,
                 fanVars, rep>>

WeightsCallNext == GenerateWeightsCall \/ ApplyRepairCall

WeightsCallSpec == WeightsCallInit /\ [][WeightsCallNext]_vars

\* ------------------------------------- stage 5, scenario by scenario
\* compliance.py:144 random.seed(hash(candidate_id)); redteam.py:119
\* random.seed(seed + hash(candidate_id)): the seed, as what it was made of
ComplianceSeed(c) == [base |-> 0, cand |-> c]
RedTeamSeed(seed, c) == [base |-> seed, cand |-> c]

\* random.random() / random.gauss(): the value is that of the draw with
\* this number since the generator was last seeded, and the generator moves on
Draw(r) == [seed |-> r.seed, k |-> r.drawn]
Drawn(r) == [r EXCEPT !.drawn = @ + 1]

\* The fan-out followed step by step: the loop resumes the tasks in any
\* order, made holding the tasks in the order it turned to them; it turns
\* from one task to another at most MaxResumes - 1 times.
Resumable(c) ==
  \/ made # <<>> /\ made[Len(made)] = c
  \/ Len(made) < MaxResumes
TurnedTo(c) == IF made # <<>> /\ made[Len(made)] = c THEN made ELSE Append(made, c)

\* what stages 1 to 4 have saved
SavedBeforeVerify ==
  StageSaveOrder(1) \o StageSaveOrder(2) \o StageSaveOrder(3) \o StageSaveOrder(4)

\* workflow.py:324-331 _verify_candidates has created the three tasks and
\* awaits gather(): stages 1 to 4 have succeeded, the stream is read from
\* here on
VerifyCallInit ==
  /\ world = [order |-> "any", focus |-> "none"]
  /\ pc = "gather"
  /\ cur = VerifyStage
  /\ runExists = TRUE
  /\ runStatus = "running"
  /\ runError = [message |-> NoExc, stage |-> "none"]
  /\ terminalWrites = 0
  /\ candidateRows = NewCandidateRows
  /\ made = <<>>
  /\ rng = NoRng
  /\ scenario_results = [c \in CandIds |-> <<>>]
  /\ stageStatus = [s \in Stages |-> IF s < VerifyStage THEN "succeeded"
                                     ELSE IF s = VerifyStage THEN "running"
                                     ELSE "pending"]
  /\ stageError = [s \in Stages |-> NoExc]
  /\ completions = [i \in 1..(VerifyStage - 1) |-> i]
  /\ sequence = 0
  /\ busCounter = 1
  /\ stream = <<>>
  /\ busFailed = FALSE
  /\ exc = NoExc
  /\ raised = NoExc
  /\ artifacts = StageArtifacts(1) \cup StageArtifacts(2) \cup StageArtifacts(3)
  /\ candidates = [c \in CandIds |-> Cand(c, 1, 0)]
  /\ compliance_reports = <<>>
  /\ redteam_reports = <<>>
  /\ decision = NoDecision
  /\ store = StageSaves(1) \cup StageSaves(2) \cup StageSaves(3) \cup StageSaves(4)
  /\ blobs = SaveAll(<<>>, SavedBeforeVerify)
  /\ audit_hashes = {}
  /\ unit = [c \in CandIds |-> "compliance"]
  /\ firstRaised = NoExc
  /\ rep = NoRep(1)

\* workflow.py:335-365 the task of candidate c up to the verdict of its
\* compliance check; compliance.py:143-145 seeds the generator and draws the
\* ESG outcome from it with no await in between
VerifyCompliance(c) ==
  /\ unit[c] = "compliance"
  /\ Resumable(c)
  /\ made' = TurnedTo(c)
  /\ rng' = Drawn([seed |-> ComplianceSeed(c), drawn |-> 0])
  /\ \E failed \in ComplianceVerdicts(c) :
       LET report == ComplianceReport(c, failed, candidates[c].gen) IN
       /\ compliance_reports' = (c :> report) @@ compliance_reports
       /\ store' = store \cup {Art("compliance_report", c, report.parent)}
       /\ blobs' = Save(blobs, Art("compliance_report", c, report.parent))
       /\ SetBus(EmitAll(Bus, <<Ev("compliance_check", "info", "none", c)>>
                              \o ComplianceEvents
                              \o <<Verdict(c, report.passed)>>))
  /\ unit' = [unit EXCEPT ![c] = "redteam"]
  /\ UNCHANGED <<world, pc, cur, runExists, runStatus, runError, terminalWrites,
                 candidateRows, scenario_results, stageVars, exc, raised,
                 artifacts, candidates, redteam_reports, decision, audit_hashes,
                 firstRaised, rep>>

\* workflow.py:374-380, redteam.py:119-129 REDTEAM_CHECK, then the executor
\* seeds the generator and awaits its first two progress events
RedTeamStart(c) ==
  /\ unit[c] = "redteam"
  /\ Resumable(c)
  /\ made' = TurnedTo(c)
  /\ rng' = [seed |-> RedTeamSeed(RunSeed, c), drawn |-> 0]
  /\ SetBus(EmitAll(Bus, <<Ev("redteam_check", "info", "none", c),
                           Progress("verify_candidates"), Progress("verify_candidates")>>))
  /\ unit' = [unit EXCEPT ![c] = "scenarios"]
  /\ UNCHANGED <<world, pc, cur, runExists, runStatus, runError, terminalWrites,
                 candidateRows, scenario_results, stageVars, exc, raised,
                 boardVars, firstRaised, rep>>

\* redteam.py:128-139, 205 the task is resumed after the progress event of a
\* scenario: _run_scenario draws the scenario's noise from the generator;
\* then the progress event of the next scenario is awaited
RunScenario(c) ==
  /\ unit[c] = "scenarios"
  /\ Resumable(c)
  /\ made' = TurnedTo(c)
  /\ Len(scenario_results[c]) < NumScenarios - 1
  /\ scenario_results' = [scenario_results EXCEPT ![c] = Append(@, Draw(rng))]
  /\ rng' = Drawn(rng)
  /\ SetBus(Emit(Bus, Progress("verify_candidates")))
  /\ UNCHANGED <<world, pc, cur, runExists, runStatus, runError, terminalWrites,
                 candidateRows, stageVars, exc, raised, boardVars, fanVars, rep>>

\* redteam.py:131-188, workflow.py:381-397 the last scenario, the report,
\* its save and the verdict event: the task ends
RunLastScenario(c) ==
  /\ unit[c] = "scenarios"
  /\ Resumable(c)
  /\ made' = TurnedTo(c)
  /\ Len(scenario_results[c]) = NumScenarios - 1
  /\ scenario_results' = [scenario_results EXCEPT ![c] = Append(@, Draw(rng))]
  /\ rng' = Drawn(rng)
  /\ \E passed \in RedTeamVerdicts(c) :
       /\ redteam_reports' =
            (c :> RedTeamReport(c, passed, candidates[c].gen, RunSeed)) @@ redteam_reports
       /\ SetBus(EmitAll(Bus, <<Persisted("verify_candidates"), Verdict(c, passed)>>))
  /\ store' = store \cup {Art("redteam_report", c, candidates[c].gen)}
  /\ blobs' = Save(blobs, Art("redteam_report", c, candidates[c].gen))
  /\ unit' = [unit EXCEPT ![c] = "done"]
  /\ UNCHANGED <<world, pc, cur, runExists, runStatus, runError, terminalWrites,
                 candidateRows, stageVars, exc, raised, artifacts, candidates,
                 compliance_reports, decision, audit_hashes, firstRaised, rep>>

VerifyCallNext ==
  \E c \in CandIds :
    \/ VerifyCompliance(c)
    \/ RedTeamStart(c)
    \/ RunScenario(c)
    \/ RunLastScenario(c)

VerifyCallSpec == VerifyCallInit /\ [][VerifyCallNext]_vars

\* ------------------------------------- ArtifactStore.save, blob by blob
\* the report types the tasks of stage 5 save concurrently
ReportSlots == {"compliance_report", "redteam_report"}

\* the artifact the task of candidate c is saving
Saving(c) == Art(made[1].input, c, candidates[c].gen)

\* The three tasks of stage 5 have each called ArtifactStore.save with a
\* report of the same type; stages 1 to 4 have succeeded. The loop resumes
\* the tasks in any order.
SaveCallInit ==
  /\ world = [order |-> "any", focus |-> "none"]
  /\ pc = "gather"
  /\ cur = VerifyStage
  /\ runExists = TRUE
  /\ runStatus = "running"
  /\ runError = [message |-> NoExc, stage |-> "none"]
  /\ terminalWrites = 0
  /\ candidateRows = NewCandidateRows
  /\ \E slot \in ReportSlots : made = <<[call |-> "save", input |-> slot]>>
  /\ rng = NoRng
  /\ scenario_results = [c \in CandIds |-> <<>>]
  /\ stageStatus = [s \in Stages |-> IF s < VerifyStage THEN "succeeded"
                                     ELSE IF s = VerifyStage THEN "running"
                                     ELSE "pending"]
  /\ stageError = [s \in Stages |-> NoExc]
  /\ completions = [i \in 1..(VerifyStage - 1) |-> i]
  /\ sequence = 0
  /\ busCounter = 1
  /\ stream = <<>>
  /\ busFailed = FALSE
  /\ exc = NoExc
  /\ raised = NoExc
  /\ artifacts = StageArtifacts(1) \cup StageArtifacts(2) \cup StageArtifacts(3)
  /\ candidates = [c \in CandIds |-> Cand(c, 1, 0)]
  /\ compliance_reports = <<>>
  /\ redteam_reports = <<>>
  /\ decision = NoDecision
  /\ store = StageSaves(1) \cup StageSaves(2) \cup StageSaves(3) \cup StageSaves(4)
  /\ blobs = SaveAll(<<>>, SavedBeforeVerify)
  /\ audit_hashes = {}
  /\ unit = [c \in CandIds |-> "save"]
  /\ firstRaised = NoExc
  /\ rep = NoRep(1)

\* artifact_store.py:89-110 the versioned blob is uploaded; the task awaits
\* the upload
UploadVersion(c) ==
  /\ unit[c] = "save"
  /\ blobs' = UploadBlob(blobs,
                         ArtifactPath(ArtifactType(Saving(c).slot), Version(Saving(c))),
                         Saving(c))
  /\ unit' = [unit EXCEPT ![c] = "latest"]
  /\ UNCHANGED <<pc, cur, runVars, stageVars, busVars, exc, raised, artifacts,
                 candidates, compliance_reports, redteam_reports, decision, store,
                 audit_hashes, firstRaised, rep>>

\* artifact_store.py:112-126 the task is resumed: latest.json is uploaded
\* and save returns
UploadLatest(c) ==
  /\ unit[c] = "latest"
  /\ blobs' = UploadBlob(blobs, LatestPath(ArtifactType(Saving(c).slot)), Saving(c))
  /\ store' = store \cup {Saving(c)}
  /\ unit' = [unit EXCEPT ![c] = "done"]
  /\ UNCHANGED <<pc, cur, runVars, stageVars, busVars, exc, raised, artifacts,
                 candidates, compliance_reports, redteam_reports, decision,
                 audit_hashes, firstRaised, rep>>

SaveCallNext == \E c \in CandIds : UploadVersion(c) \/ UploadLatest(c)

SaveCallSpec == SaveCallInit /\ [][SaveCallNext]_vars

\* ------------------------------------------------------------- subscriber
TerminalKinds == {"run_completed", "run_failed"}

\* event_bus.py:121-198 subscribe(run_id, last_event_id): the entries after
\* position last, in stream order, up to the first terminal event, after
\* which the generator returns
Subscribe(s, last) ==
  LET terminal == {i \in (last + 1)..Len(s) : s[i].kind \in TerminalKinds}
      end == IF terminal = {} THEN Len(s)
             ELSE CHOOSE i \in terminal : \A j \in terminal : i <= j
  IN SubSeq(s, last + 1, end)

\* what a subscriber that reads the stream from its start has been given
Observed == Subscribe(stream, 0)

\* the two identifiers of the i-th entry of the stream: the id XADD gave it
\* (event_bus.py:105) and the event_id of the event, a uuid4 (events.py:73)
StreamId(i) == [type |-> "stream_id", of |-> i]
EventId(i) == [type |-> "event_id", of |-> i]

\* main.py:220 the id field of the SSE message of the i-th entry
SseId(i) == EventId(i)

\* main.py:204 and event_bus.py:143-198 a client reconnects with the id
\* of the last message it was given: the id becomes the start_id of XREAD.
\* A stream id resumes after its entry; anything else is rejected by XREAD,
\* and the except branch sleeps and reads again with the same start_id, for
\* ever, so that nothing is yielded
Resume(s, last_event_id) ==
  IF last_event_id.type = "stream_id" THEN Subscribe(s, last_event_id.of) ELSE <<>>

\* ----------------------------------------------------------------- claims
\* the handler of execute_stage has run for the stage whose executor raised
Handled == raised # NoExc /\ pc # "stage_err"

\* the STAGE_STARTED events of the stream, in order
IsStageStarted(e) == e.kind = "stage_started"
StartedStages == SelectSeq(stream, IsStageStarted)

FixedOrder ==
  <<"load_mandate", "build_universe", "compute_features", "generate_candidates",
    "verify_candidates", "repair_loop", "rank_select", "rebalance_plan",
    "write_memo", "audit_finalize">>

C3_FanOutIsolation ==
  (firstRaised # NoExc) ~>
    (\A d \in CandIds :
       \/ unit[d] = "raised"
       \/ /\ unit[d] = "done"
          /\ d \in DOMAIN compliance_reports
          /\ d \in DOMAIN redteam_reports
          /\ compliance_reports[d].candidate_id = d
          /\ redteam_reports[d].candidate_id = d)

\* C3 witness: the check of A raised, the run failed, and the tasks of B and C
\* have run to their end and recorded their reports
W_C3 ==
  /\ firstRaised = ExecutorError(VerifyStage, "A")
  /\ unit = [c \in CandIds |-> IF c = "A" THEN "raised" ELSE "done"]
  /\ {"B", "C"} \subseteq DOMAIN compliance_reports \cap DOMAIN redteam_reports
  /\ "A" \notin DOMAIN compliance_reports

\* C4 (as the specification states it): stage 5 reaches its final status, and
\* the orchestrator proceeds, only after every launched verification task has
\* finished.
C4_AllComplete ==
  stageStatus[VerifyStage] \in {"succeeded", "failed"} =>
    \A c \in CandIds : unit[c] \in {"done", "raised"}

\* C5 (as the specification states it): the sequence numbers of the events a
\* subscriber is given are strictly increasing, without gap or duplicate.
C5_GaplessSequence ==
  \A i \in 1..(Len(Observed) - 1) : Observed[i + 1].seq = Observed[i].seq + 1

\* the repair executor is at work on a candidate
Repairing == pc = "stage_exec" /\ cur = RepairStage /\ rep.attempt >= 1

\* C6: for a candidate with a failed check the repair loop makes at most 3
\* iterations; an iteration that repairs the candidate re-runs both checks on
\* the repaired candidate; the loop stops at the first iteration after which
\* both checks pass, and otherwise after the third; the stage always ends.
C6_RepairBounded ==
  /\ [][ /\ MaxAttempts = 3
         /\ \A c \in DOMAIN candidates : candidates[c].gen <= MaxAttempts
         /\ (pc = "stage_exec" /\ cur = RepairStage /\ rep.attempt = 0 /\ rep'.attempt # 0)
              => (rep'.attempt = 1 /\ NeedsRepair(CandOrder[rep.idx]))
         /\ (Repairing /\ rep' # rep) =>
              LET c == rep.cand.candidate_id
                  returned == rep'.attempt = 0
                  cand2 == IF returned THEN candidates'[c] ELSE rep'.cand
                  comp2 == IF returned THEN compliance_reports'[c] ELSE rep'.comp
                  red2 == IF returned THEN redteam_reports'[c] ELSE rep'.red
              IN /\ rep.attempt <= MaxAttempts
                 /\ ~returned => (rep'.attempt = rep.attempt + 1 /\ rep'.idx = rep.idx)
                 /\ returned => rep'.idx = rep.idx + 1
                 /\ cand2.gen \in {rep.cand.gen, rep.cand.gen + 1}
                 /\ cand2.gen = rep.cand.gen + 1 =>
                      (comp2.parent = cand2.gen /\ red2.parent = cand2.gen)
                 /\ cand2.gen = rep.cand.gen => (comp2 = rep.comp /\ red2 = rep.red)
                 /\ returned <=> ((comp2.passed /\ red2.passed) \/ rep.attempt = MaxAttempts)
      ]_vars
  /\ (pc = "stage_exec" /\ cur = RepairStage) ~> ~(pc = "stage_exec" /\ cur = RepairStage)

\* C6 witness: the third attempt on a candidate has been made and its checks
\* still fail: the budget is exhausted and the stage has ended
W_C6 ==
  /\ stageStatus[RepairStage] = "succeeded"
  /\ \E c \in CandIds :
       /\ candidates[c].gen = MaxAttempts
       /\ ~(compliance_reports[c].passed /\ redteam_reports[c].passed)

\* C7: repair never leaves a gap: after stage 6 the blackboard holds, for each
\* of A, B and C, one candidate and the compliance and red-team reports made
\* for that very candidate (the last set the repair produced).
C7_NoGapAfterRepair ==
  stageStatus[RepairStage] = "succeeded" =>
    /\ DOMAIN candidates = {"A", "B", "C"}
    /\ DOMAIN compliance_reports = {"A", "B", "C"}
    /\ DOMAIN redteam_reports = {"A", "B", "C"}
    /\ \A c \in {"A", "B", "C"} :
         /\ candidates[c].candidate_id = c
         /\ compliance_reports[c].candidate_id = c
         /\ redteam_reports[c].candidate_id = c
         /\ compliance_reports[c].parent = candidates[c].gen
         /\ redteam_reports[c].parent = candidates[c].gen

\* C7 witness: after stage 6 one candidate was repaired with success and
\* another is kept with a check that still fails
W_C7 ==
  /\ stageStatus[RepairStage] = "succeeded"
  /\ \E c, d \in CandIds :
       /\ candidates[c].gen > 0
       /\ compliance_reports[c].passed /\ redteam_reports[c].passed
       /\ ~compliance_reports[d].passed

\* the candidates that passed both checks
Eligible ==
  {c \in DOMAIN candidates :
     /\ c \in DOMAIN compliance_reports => compliance_reports[c].passed
     /\ c \in DOMAIN redteam_reports => redteam_reports[c].passed}

\* C8: rank/select returns one winner among the run's candidates: with an
\* eligible candidate the winner is eligible and no eligible candidate has a
\* higher score; with none the winner has the highest score of all.
C8_WinnerIsBest ==
  decision # NoDecision =>
    /\ decision.selected \in DOMAIN candidates
    /\ DOMAIN decision.scores = DOMAIN candidates
    /\ IF Eligible # {}
       THEN /\ decision.selected \in Eligible
            /\ \A e \in Eligible :
                 decision.scores[decision.selected] >= decision.scores[e]
       ELSE \A c \in DOMAIN candidates :
              decision.scores[decision.selected] >= decision.scores[c]

\* C8 witness: a decision whose winner is not the first candidate, with one
\* candidate rejected and two eligible ones of different scores
W_C8 ==
  /\ decision # NoDecision
  /\ decision.rejected = {"A"}
  /\ decision.selected = "C"
  /\ decision.scores["C"] > decision.scores["B"]

\* C9: zero eligible candidates is not an error: rank/select can return, its
\* Decision names a winner and gives the rationale that no candidate passed,
\* the executors of stages 8 to 10 can work on that winner, and a run in
\* which no executor raised ends completed.
C9_NoEligibleIsNoError ==
  /\ (pc = "stage_exec" /\ cur = SelectStage) => ENABLED RankSelect
  /\ (decision # NoDecision /\ Eligible = {}) =>
       /\ decision.selected \in DOMAIN candidates
       /\ decision.rationale = "no_candidates_passed"
       /\ stageStatus[SelectStage] # "failed"
       /\ (pc = "stage_exec" /\ cur > SelectStage) => ENABLED ExecReturn
       /\ (raised = NoExc /\ exc = NoExc) => pc # "raised"
       /\ (pc = "done" /\ raised = NoExc /\ exc = NoExc) =>
            (runStatus = "completed" /\ \A s \in Stages : stageStatus[s] = "succeeded")
  /\ (decision # NoDecision /\ Eligible # {}) =>
       decision.rationale = "selected_with_score"

\* C9 witness: a completed run whose decision was made with no candidate
\* eligible, one of them after its repair budget was exhausted
W_C9 ==
  /\ pc = "done"
  /\ runStatus = "completed"
  /\ decision.rationale = "no_candidates_passed"
  /\ decision.rejected = {"A", "B", "C"}
  /\ \E c \in CandIds : candidates[c].gen = MaxAttempts

\* C10 (as the specification states it): the run status goes from pending to
\* running and from running to completed or failed; a terminal status is
\* written at most once, and a completed or failed run keeps its status.
C10_RunLifecycle ==
  [][ /\ runStatus' # runStatus =>
           <<runStatus, runStatus'>> \in
             {<<"pending", "running">>, <<"running", "completed">>, <<"running", "failed">>}
      /\ terminalWrites' <= 1
    ]_vars

ExecuteFinished ==
  pc \in {"returned", "publish_completed", "raised", "done", "cancelled"}

\* C12 (as the specification states it): when execute() has finished, by
\* return or by raise, each of the ten stage records has a terminal status
\* (succeeded, failed, skipped or repaired); none is pending or running.
C12_AllStagesTerminal ==
  (runExists /\ ExecuteFinished) =>
    \A s \in Stages : stageStatus[s] \in {"succeeded", "failed", "skipped", "repaired"}

\* C13 (as the specification states it): the terminal AuditEvent references
\* the hash of every artifact the run produced: mandate, universe, every
\* FundFeatures, every candidate version, every compliance and red-team
\* report, the decision, the rebalance plan, the memo and the risk appendix.
C13_AuditReferencesAll ==
  stageStatus[NumStages] = "succeeded" =>
    (store \ {Art("audit", "none", 0)}) \subseteq audit_hashes

\* C14 (as the specification states it): in stage 5 the compliance and the
\* red-team check of one candidate run concurrently: the six checks are
\* launched together, so that while a candidate's compliance check has not
\* finished its red-team check can already start.
C14_ChecksConcurrent ==
  \A c \in CandIds :
    (pc = "gather" /\ unit[c] = "compliance" /\ Runnable(c)) => ENABLED UnitRedTeam(c)

\* C15 (as the specification states it): when a stage's executor has raised,
\* the run is marked failed with both its error_message and its error_stage
\* populated, and RUN_FAILED is published at error level after STAGE_FAILED.
C15_RunFailureRecorded ==
  (pc = "done" /\ runExists /\ raised # NoExc) =>
    /\ runStatus = "failed"
    /\ runError.message = raised
    /\ runError.stage = StageIds[raised.at]
    /\ \E i, j \in 1..Len(stream) :
         /\ i < j
         /\ stream[i].kind = "stage_failed"
         /\ stream[j].kind = "run_failed"
         /\ stream[j].level = "error"

\* C16 (as the specification states it): when the top-level execution was
\* cancelled while a stage was in flight, the run is marked failed or
\* cancelled; it is never left running.
C16_CancelledRunNotRunning ==
  (pc = "cancelled" /\ runExists) => runStatus \in {"failed", "cancelled"}

\* every entry of the stream is given to a subscriber that reads from the start
DeliversAll == Observed = stream

\* the events are given in the order of their sequence numbers
DeliversInSequenceOrder ==
  \A i, j \in 1..Len(Observed) : i < j => Observed[i].seq <= Observed[j].seq

\* C17 (as the specification states it): a subscriber that subscribes from the
\* beginning is given every event published for the run, in the order of the
\* sequence numbers, the events of the concurrent tasks of stage 5 and those
\* around a failure of the run included.
C17_SubscriberReceivesAll == DeliversAll /\ DeliversInSequenceOrder

\* C18 (as the specification states it): a subscriber that reconnects with
\* the id of the last event it was given (the SSE id, sent back as
\* Last-Event-ID) resumes: it is given the events published after that event,
\* in order and without loss.
C18_ResumeFromLastEventId ==
  \A i \in 1..Len(Observed) : Resume(stream, SseId(i)) = Subscribe(stream, i)

\* C19: from the end of stage 4 on, whatever becomes of the run, the
\* blackboard holds exactly three candidates, under the keys A, B and C and
\* with these ids; a step that changes the candidates after stage 4 (a
\* repair) replaces a candidate by one with the same id and adds or removes
\* none.
C19_ThreeCandidates ==
  /\ [](stageStatus[4] = "succeeded" =>
          /\ DOMAIN candidates = {"A", "B", "C"}
          /\ \A c \in {"A", "B", "C"} : candidates[c].candidate_id = c)
  /\ [][ (candidates' # candidates /\ candidates # <<>>) =>
            /\ cur = RepairStage
            /\ DOMAIN candidates' = DOMAIN candidates
            /\ \A c \in DOMAIN candidates :
                 candidates'[c].candidate_id = candidates[c].candidate_id
       ]_vars

\* C19 witness: a completed run in which B was replaced twice by the repair
\* loop: the blackboard still holds A, B and C
W_C19 ==
  /\ pc = "done"
  /\ runStatus = "completed"
  /\ DOMAIN candidates = {"A", "B", "C"}
  /\ candidates["B"].gen = 2
  /\ candidates["A"].gen = 0

\* C20 (as the specification states it): when the repair loop replaces a
\* candidate of the blackboard, the replacement is a new artifact with the
\* same candidate_id and a version strictly greater than the one it replaces.
C20_RepairBumpsVersion ==
  [][ \A c \in DOMAIN candidates \cap DOMAIN candidates' :
        candidates'[c] # candidates[c] =>
          /\ candidates'[c].gen # candidates[c].gen
          /\ candidates'[c].candidate_id = candidates[c].candidate_id
          /\ candidates'[c].version > candidates[c].version
    ]_vars

\* C21 (as the specification states it): a candidate is reported as repaired
\* (CANDIDATE_REPAIRED) only when a repair was applied to it and its
\* compliance and red-team reports after the repair both pass, never when the
\* repair budget was exhausted or no repair was applied.
C21_RepairedOnlyWhenPassed ==
  \A i \in 1..Len(stream) :
    stream[i].kind = "candidate_repaired" =>
      LET c == stream[i].cand IN
      /\ candidates[c].gen > 0
      /\ compliance_reports[c].passed
      /\ redteam_reports[c].passed

\* C22 (as the specification states it): only critical compliance failures
\* block selection: of the candidates whose red-team report passed, one whose
\* failed compliance rules are all warnings is eligible in rank/select, and
\* one with a failed concentration or regulatory rule is rejected.
C22_OnlyCriticalBlocks ==
  decision # NoDecision =>
    \A c \in DOMAIN candidates :
      redteam_reports[c].passed =>
        (c \in decision.rejected <=> compliance_reports[c].critical # {})

\* C23: repair idempotence: the repair executor called on a candidate whose
\* compliance and red-team reports both pass returns at once: the candidate
\* and the two reports it was given are what the blackboard holds after the
\* call, no repair iteration is announced and no artifact is saved.
C23_RepairIdempotent ==
  [][ (Repairing /\ rep.attempt = 1 /\ rep.comp.passed /\ rep.red.passed) =>
        LET c == rep.cand.candidate_id IN
        /\ rep'.attempt = 0
        /\ candidates'[c] = rep.cand
        /\ compliance_reports'[c] = rep.comp
        /\ redteam_reports'[c] = rep.red
        /\ candidates' = candidates
        /\ store' = store
        /\ \A i \in (Len(stream) + 1)..Len(stream') :
             stream'[i].kind \notin {"repair_iteration", "progress_update",
                                     "artifact_persisted"}
    ]_vars

\* C23 witness: the executor was called on candidate A with two passing
\* reports and has returned; nothing but the workflow's own event was emitted
W_C23 ==
  /\ rep = NoRep(2)
  /\ candidates["A"] = Cand("A", 1, 0)
  /\ compliance_reports["A"].passed /\ redteam_reports["A"].passed
  /\ Len(stream) = 1
  /\ stream[1].kind = "candidate_repaired"

Flag(b) == IF b THEN "true" ELSE "false"

\* C26 (as the specification states it): after a completed run the
\* CandidateProgress record of each of A, B and C in the Run Store reflects
\* the candidate's final compliance and red-team pass state and its repair
\* attempts.
C26_CandidateProgressTracks ==
  (runExists /\ runStatus = "completed") =>
    \A c \in CandIds :
      /\ candidateRows[c].compliance_passed = Flag(compliance_reports[c].passed)
      /\ candidateRows[c].redteam_passed = Flag(redteam_reports[c].passed)
      /\ candidates[c].gen > 0 =>
           (candidateRows[c].repair_attempts > 0 /\ candidateRows[c].is_repaired)

\* C27 (as the specification states it): the Decision records a rejection
\* reason for every candidate that is not the selected winner, whether it
\* failed a check or was eligible and scored lower.
C27_ReasonForEveryNonWinner ==
  decision # NoDecision =>
    (DOMAIN candidates \ {decision.selected}) \subseteq decision.rejected

\* the artifacts two calls returned, position by position
SameCall(i, j) ==
  /\ made[i].call = made[j].call
  /\ made[i].input = made[j].input

\* C28 (as the specification states it): two executions of the Candidate
\* Generator with the same mandate, universe, features and seed produce
\* identical candidates: the same holdings, weights and metrics, the same
\* artifact content and hence the same hashes.
C28_GenerationReproducible ==
  \A i, j \in 1..Len(made) :
    (made[i].call = "generate_candidates" /\ SameCall(i, j)) =>
      \A k \in 1..Len(CandOrder) :
        /\ made[i].out[k].fields = made[j].out[k].fields
        /\ ArtifactHash(made[i].out[k]) = ArtifactHash(made[j].out[k])

\* the artifacts the calls made so far have returned
MadeArtifacts == UNION {{made[i].out[k] : k \in 1..Len(made[i].out)} : i \in 1..Len(made)}

\* a dict with its entries inserted in the opposite order
Reversed(fields) == [i \in 1..Len(fields) |-> fields[Len(fields) + 1 - i]]

\* two artifacts with the same logical content: they differ at most in
\* created_at and in the artifact_id drawn for storage
SameContent(a, b) ==
  /\ a.run_id = b.run_id
  /\ a.stage_id = b.stage_id
  /\ JsonDumpsSorted(a.fields) = JsonDumpsSorted(b.fields)

\* C29 (as the specification states it): the hash of an artifact depends only
\* on its logical content: two artifacts that differ only in created_at and
\* in the random artifact_id have the same artifact_hash, and the hash of an
\* artifact does not change with the order of its map-like fields.
C29_HashOfContentOnly ==
  \A a, b \in MadeArtifacts :
    /\ SameContent(a, b) => ArtifactHash(a) = ArtifactHash(b)
    /\ ArtifactHash([a EXCEPT !.fields = Reversed(a.fields)]) = ArtifactHash(a)

\* C30 (as the specification states it): loading a mandate id that is not a
\* template's falls back to the constraint values of the default template,
\* and the MandateDSL keeps the id the caller supplied as its mandate_id.
C30_UnknownMandateKeepsId ==
  \A i \in 1..Len(made) :
    (made[i].call = "load_mandate" /\ made[i].input[1] \notin DOMAIN MandateTemplates) =>
      LET mandate == made[i].out[1] IN
      /\ SubSeq(mandate.fields, 2, Len(mandate.fields)) = MandateTemplates["balanced_growth"]
      /\ mandate.fields[1] = <<"mandate_id", made[i].input[1]>>

\* C31: for a candidate whose largest position exceeds the mandate's
\* max_single_position, after one repair iteration the repaired candidate's
\* max_position_size is at most max_single_position and its weights sum to
\* 1.0 within rounding (half a unit per holding).
RepairCalls == {i \in 1..Len(made) : made[i].call = "apply_repair"}
WasOverCap(i) == ~ConcentrationPassed(made[i - 1].out, made[i].input.max_position)
SumsToOne(ws) ==
  /\ 2 * (Sum(ws) - Unit) <= Len(ws)
  /\ 2 * (Unit - Sum(ws)) <= Len(ws)
C31_RepairRestoresCap ==
  \A i \in RepairCalls :
    WasOverCap(i) =>
      /\ MaxPositionSize(made[i].out) <= made[i].input.max_position
      /\ SumsToOne(made[i].out)

\* C32: in every candidate the generator produces, each holding's weight,
\* the last holding's and after renormalisation, is at most the mandate's
\* max_single_position.
C32_GeneratedWithinCap ==
  \A i \in 1..Len(made) :
    made[i].call = "generate_candidate" =>
      \A j \in 1..Len(made[i].out) : made[i].out[j] <= made[i].input.max_position

\* C33: the red-team result of a candidate is a function of the candidate
\* and the seed only: under every interleaving of the other candidates'
\* tasks, the k-th scenario of candidate c is computed from the k-th draw of
\* the generator seeded for c.
OwnDraws(c, n) == [k \in 1..n |-> [seed |-> RedTeamSeed(RunSeed, c), k |-> k - 1]]
C33_RedTeamReproducible ==
  \A c \in CandIds : scenario_results[c] = OwnDraws(c, Len(scenario_results[c]))

\* C34: after any interleaving of concurrent ArtifactStore.save calls for
\* the same (run_id, artifact_type), once all of them have completed, the
\* latest blob holds the same artifact as the highest-numbered version blob
\* of that type.
VersionsOf(b, artifact_type) ==
  {p.version : p \in {q \in DOMAIN b : q.artifact_type = artifact_type /\ q.file = "version"}}
HighestVersion(b, artifact_type) ==
  CHOOSE v \in VersionsOf(b, artifact_type) : \A w \in VersionsOf(b, artifact_type) : w <= v
SavesCompleted == made # <<>> /\ \A c \in CandIds : unit[c] = "done"
C34_LatestIsHighestVersion ==
  SavesCompleted =>
    LET t == ArtifactType(made[1].input)
    IN blobs[LatestPath(t)] = Load(blobs, t, HighestVersion(blobs, t))

\* C35: no artifact save during a run overwrites the stored blob of a
\* different artifact: at the end of a completed run every artifact that was
\* saved, each of the three candidates and each candidate's compliance and
\* red-team report among them, can still be loaded by its own key.
Loadable(a) == Load(blobs, ArtifactType(a.slot), Version(a)) = a
C35_SavedArtifactsKept ==
  (pc = "done" /\ runStatus = "completed") => \A a \in store : Loadable(a)

\* C36: every event that carries a stage_id is published after that stage's
\* STAGE_STARTED event and before that stage's STAGE_COMPLETED or
\* STAGE_FAILED event: none is published once the stage has finished.
StageBoundaryKinds == {"stage_started", "stage_completed", "stage_failed"}
OfStage(i) ==
  stream[i].stage # "none" /\ stream[i].kind \notin StageBoundaryKinds
StartedBefore(i) ==
  \E j \in 1..(i - 1) :
    stream[j].kind = "stage_started" /\ stream[j].stage = stream[i].stage
FinishedBefore(i) ==
  \E j \in 1..(i - 1) :
    /\ stream[j].kind \in {"stage_completed", "stage_failed"}
    /\ stream[j].stage = stream[i].stage
C36_EventsWithinStage ==
  \A i \in 1..Len(stream) : OfStage(i) => StartedBefore(i) /\ ~FinishedBefore(i)

\* C37: the compliance report and the red-team report the blackboard holds
\* for a candidate id were produced from the candidate it holds for that id
\* (their parent hash is that candidate's hash), after stage 5 and after
\* every repair: a repaired candidate is never paired with the reports of an
\* earlier version, nor the reverse.
MadeFrom(report, c) ==
  /\ c \in DOMAIN candidates
  /\ report.candidate_id = candidates[c].candidate_id
  /\ report.parent = candidates[c].gen
C37_ReportsOfCurrentCandidate ==
  /\ \A c \in DOMAIN compliance_reports : MadeFrom(compliance_reports[c], c)
  /\ \A c \in DOMAIN redteam_reports : MadeFrom(redteam_reports[c], c)

\* C37 witness: the repair loop is over, a candidate was repaired and the
\* blackboard holds the two reports made from the repaired candidate
W_C37 ==
  /\ cur = RepairStage
  /\ pc = "stage_ok"
  /\ \E c \in DOMAIN candidates :
       /\ candidates[c].gen >= 1
       /\ compliance_reports[c].parent = candidates[c].gen
       /\ redteam_reports[c].parent = candidates[c].gen

\* main.py:329-336, 345-352 the event execute_workflow publishes with a status
RunEventOf(status) == IF status = "completed" THEN "run_completed" ELSE "run_failed"

\* the positions of the stream that hold a RUN_COMPLETED or RUN_FAILED event
TerminalEntries == {i \in 1..Len(stream) : stream[i].kind \in TerminalKinds}

\* event_bus.py:176-179 the generator of a subscriber reading after position
\* last has returned, the event it yielded last being the run's terminal event
StreamEnded(last) ==
  LET given == Subscribe(stream, last) IN
  /\ Len(given) > 0
  /\ given[Len(given)].kind = RunEventOf(runStatus)

\* execute_workflow has returned, the run's row holds completed or failed,
\* the one terminal event of the stream is the one of that status, and the
\* stream of a subscriber reading from the start, or from any entry it was
\* given before, has ended with it
RunTerminated ==
  /\ pc = "done"
  /\ runStatus \in {"completed", "failed"}
  /\ Cardinality(TerminalEntries) = 1
  /\ \A last \in 0..(Len(Observed) - 1) : StreamEnded(last)

\* the premises: the task is not cancelled and no publish raises
CallsFailed == pc = "cancelled" \/ busFailed

\* C38: under fairness, every stage executor call returning or raising and
\* the run store and event bus calls succeeding, execute_workflow eventually
\* leaves the run in status completed or failed and publishes the matching
\* RUN_COMPLETED or RUN_FAILED event, after which a subscriber's stream ends,
\* and this stays so.
C38_RunTerminates ==
  (pc = "queued" /\ runExists) ~> [](RunTerminated \/ CallsFailed)

\* C38 witness: a run has failed in stage 5, RUN_FAILED is published, the
\* tasks left running have published further events and the subscriber's
\* stream has ended at RUN_FAILED
W_C38 ==
  /\ RunTerminated
  /\ ~CallsFailed
  /\ runStatus = "failed"
  /\ Len(stream) > Len(Observed)

\* execute() has been entered and has ended
ExecuteLeft == pc \notin {"queued", "execute"}

\* nothing of a stage has happened: no stage status or error written, no
\* artifact saved, no event carrying a stage published
NoStageTouched ==
  /\ \A s \in Stages : stageStatus[s] = "pending" /\ stageError[s] = NoExc
  /\ completions = <<>>
  /\ store = {}
  /\ blobs = <<>>
  /\ \A i \in 1..Len(stream) : stream[i].stage = "none"

\* C39: execute() for a run_id that has no record in the Run Store raises an
\* error before any stage status is updated, any artifact is saved or any
\* stage event is published.
C39_MissingRunRaisesFirst ==
  ~runExists =>
    /\ NoStageTouched
    /\ cur = 0
    /\ ExecuteLeft => (exc = RunNotFound /\ pc \in {"raised", "done"})

\* C39 witness: execute() has raised for the missing run and the handler of
\* execute_workflow has run
W_C39 ==
  /\ ~runExists
  /\ pc = "done"
  /\ exc = RunNotFound

====
